---- MODULE Spec2Model ----
(***************************************************************************)
(* A model of the buffer-allocation and CPU-access paths of minigbm's hbm  *)
(* glue (src/hbm.c) and dma-buf heap backend                                *)
(* (src/dmabuf_driver/dmabuf_internals.cpp).                                *)
(*                                                                         *)
(* Usage and map-flag masks are sets of flag names: a & b is               *)
(* intersection, a | b union, !a emptiness.  Memory types are integers     *)
(* (bit masks) because pick_memory_type mixes them with the value -1.      *)
(***************************************************************************)
EXTENDS Integers, Sequences, FiniteSets, TLC

VARIABLES
    pIn,    \* SpecPick: usage flags and the memory types a bo enumerates
    pOut,   \* SpecPick: pick_memory_type applied to pIn
    aReq,   \* SpecAlloc: the request and the memory types the device enumerates
    aOut,   \* SpecAlloc: hbm_allocate applied to aReq
    rIn,    \* SpecResolve: a format and usage flags
    rOut,   \* SpecResolve: dmabuf_resolve_format_and_use_flags applied to rIn
    cIn,    \* SpecCreate2: a request made of dmabuf_bo_create2
    cOut    \* SpecCreate2: dmabuf_bo_create2 applied to cIn

VARIABLES
    backend,   \* Spec: the backend the driver is built with
    hPriv,     \* hbm: bo->priv is "null", "res" (hRes) or "freed"
    hRes,      \* hbm: the struct hbm_resource of the bo, or NULL
    hMeta,     \* hbm: bo->meta as written by init_bo_metadata
    hVma,      \* hbm: the vmas the caller maps the bo through
    hDirect,   \* hbm: mappings of res->bo not yet unmapped
    hReal,     \* hbm: contents of the real buffer, per plane
    hWritten,  \* hbm: the client has written through a mapping
    hLast,     \* hbm: the last call and what it did
    dDrv,      \* dmabuf: drv->priv, NULL or the heap descriptors
    dBo,       \* dmabuf: priv and meta of the bo
    dVma,      \* dmabuf: which vmas hold a mapping of the bo
    dAllocs,   \* dmabuf: DMA_HEAP_IOCTL_ALLOC calls issued so far
    dLast      \* dmabuf: the last call and what it did

VARIABLES
    oBo,       \* SpecOwn: priv, resource, handle and meta of the bo
    oFds,      \* SpecOwn: the descriptors the engine obtained, from number 4 on
    oObjs,     \* SpecOwn: per kind of object, how many were made and released
    oLast      \* SpecOwn: the last call and what it returned

VARIABLES
    wIn,       \* SpecWide: a request whose sizes need more than 16 bits
    wOut,      \* SpecWide: the 32-bit size computations applied to wIn
    tPriv,     \* SpecRace: drv->priv, 0 or the number of a context
    tCtxs,     \* SpecRace: the DmabufDriver contexts constructed so far
    tProc,     \* SpecRace: where each thread is in dmabuf_bo_create2
    sIn,       \* SpecStaging: the memory types of the device, the failing step
    sOut,      \* SpecStaging: hbm_create applied to sIn
    bMap,      \* SpecBracket: the mapping of the bo, if any
    bCalls,    \* SpecBracket: mmap, munmap and sync calls made on the buffer
    kWait,     \* SpecWait: where the thread is in wait_resource
    kFence     \* SpecWait: the implicit fence and the faults of its descriptor

VARIABLES
    fBo,       \* SpecFds: priv (the descriptor of each plane) and planes of the bo
    fFds,      \* SpecFds: the descriptors the process obtained, in order
    fLast      \* SpecFds: the last call and what it returned

wideVars == <<wIn, wOut>>
raceVars == <<tPriv, tCtxs, tProc>>
stagingVars == <<sIn, sOut>>
waitVars == <<kWait, kFence>>
bracketVars == <<bMap, bCalls>>
fdVars == <<fBo, fFds, fLast>>
lateVars == <<fdVars>>
moreVars == <<wideVars, raceVars, stagingVars, waitVars, bracketVars, lateVars>>
pureVars == <<pIn, pOut, aReq, aOut, rIn, rOut, cIn, cOut, moreVars>>
hbmVars == <<hPriv, hRes, hMeta, hVma, hDirect, hReal, hWritten, hLast>>
dmabufVars == <<dDrv, dBo, dVma, dAllocs, dLast>>
ownVars == <<oBo, oFds, oObjs, oLast>>
\* what the specifications written before SpecWide are about
coreVars == <<pIn, pOut, aReq, aOut, rIn, rOut, cIn, cOut, ownVars, backend,
              hbmVars, dmabufVars>>
oldVars == <<coreVars, lateVars>>
\* what the specifications written before SpecFds are about
restVars == <<coreVars, wideVars, raceVars, stagingVars, waitVars, bracketVars>>
vars == <<pureVars, ownVars, backend, hbmVars, dmabufVars>>

(***************************************************************************)
(* Bounds of the model.                                                    *)
(***************************************************************************)
\* longest list of memory types a bo enumerates
MaxMts == 2
\* vmas a caller maps one bo through at the same time
MaxVma == 2
\* most DMA_HEAP_IOCTL_ALLOC calls of a run
MaxAllocs == 2
\* most poll() calls of one wait
MaxPolls == 1
\* longest list of memory types of the devices of SpecAlloc
MaxAllocMts == 1
\* most usage bits set in one request
MaxUseBits == 2
\* threads calling dmabuf_bo_create2 on one driver at the same time
MaxThreads == 2
\* most interruptions of the poll() of one wait_resource call
MaxInterrupts == 2
\* most dmabuf_bo_map calls of a run of SpecBracket
MaxMaps == 3
\* most dmabuf_bo_flush calls on one mapping
MaxFlushes == 2
\* most descriptors the process obtains for one bo
MaxFdTable == 6

(***************************************************************************)
(* Usage flags.                                                            *)
(***************************************************************************)
BO_USE_SW_MASK ==
    {"SW_READ_OFTEN", "SW_READ_RARELY", "SW_WRITE_OFTEN", "SW_WRITE_RARELY"}

\* the BO_USE_* bits hbm.c looks at
HbmUseBits ==
    BO_USE_SW_MASK \cup
    {"SCANOUT", "CURSOR", "RENDERING", "TEXTURE", "GPU_DATA_BUFFER",
     "SENSOR_DIRECT_DATA", "LINEAR", "PROTECTED", "FRONT_RENDERING"}

use_overlay(use_flags) == use_flags \cap {"SCANOUT", "CURSOR"} # {}

use_gpu(use_flags) ==
    use_flags \cap {"RENDERING", "TEXTURE", "GPU_DATA_BUFFER"} # {}

\* a plausible slip: only the GPU data buffer usage counts as a blob
use_blob_gpu_only(use_flags) == "GPU_DATA_BUFFER" \in use_flags

use_blob(use_flags) ==
    use_flags \cap {"GPU_DATA_BUFFER", "SENSOR_DIRECT_DATA"} # {}

use_sw_read(use_flags) ==
    use_flags \cap {"SW_READ_OFTEN", "SW_READ_RARELY"} # {}

use_sw_write(use_flags) ==
    use_flags \cap {"SW_WRITE_OFTEN", "SW_WRITE_RARELY"} # {}

use_sw(use_flags) == use_sw_read(use_flags) \/ use_sw_write(use_flags)

use_sw_often(use_flags) ==
    use_flags \cap {"SW_READ_OFTEN", "SW_WRITE_OFTEN"} # {}

\* a plausible slip: the readback exception of the overlay branch is dropped
prefer_map_no_readback_rule(use_flags) ==
    IF use_overlay(use_flags) THEN use_sw_often(use_flags)
    ELSE IF use_gpu(use_flags) THEN use_sw_often(use_flags)
    ELSE TRUE

\* choose between MAP (TRUE) and COPY (FALSE); the caller has checked use_sw
prefer_map(use_flags) ==
    IF use_overlay(use_flags)
    THEN use_sw_often(use_flags) /\ ~use_sw_read(use_flags)
    ELSE IF use_gpu(use_flags) THEN use_sw_often(use_flags)
    ELSE TRUE

(***************************************************************************)
(* Memory types: bit masks over the four HBM_MEMORY_TYPE_* flags.          *)
(***************************************************************************)
HBM_MEMORY_TYPE_LOCAL == 1
HBM_MEMORY_TYPE_CACHED == 2
HBM_MEMORY_TYPE_COHERENT == 4
HBM_MEMORY_TYPE_MAPPABLE == 8

MemTypes == 0 .. 15

RECURSIVE BitAnd(_, _)
BitAnd(a, b) ==
    IF a = 0 \/ b = 0 THEN 0
    ELSE (a % 2) * (b % 2) + 2 * BitAnd(a \div 2, b \div 2)

BitOr(a, b) == a + b - BitAnd(a, b)

\* every list of at most n memory types
MtLists(n) == UNION {[1 .. k -> MemTypes] : k \in 0 .. n}

\* pick_memory_type never looks at COHERENT: the devices of SpecAlloc
\* enumerate the types without it
AllocMtLists(n) ==
    UNION {[1 .. k -> {mt \in MemTypes :
                          BitAnd(mt, HBM_MEMORY_TYPE_COHERENT) = 0}] :
           k \in 0 .. n}

(***************************************************************************)
(* Formats and modifiers.                                                  *)
(***************************************************************************)
DRM_FORMAT_INVALID == "INVALID"
DRM_FORMAT_R8 == "R8"
DRM_FORMAT_MOD_INVALID == "MOD_INVALID"
DRM_FORMAT_MOD_LINEAR == "MOD_LINEAR"
\* some non-linear modifier of the device
MOD_TILED == "MOD_TILED"

\* The sizes below are uint32_t in the code.  Every value the bounded inputs
\* produce is far below 2^31, where TLC itself stops with an error instead of
\* wrapping, so no reduction modulo 2^32 is written out.

DIV_ROUND_UP(n, d) == (n + d - 1) \div d

ALIGN(x, a) == ((x + a - 1) \div a) * a

(***************************************************************************)
(* The standard per-format plane table of drv_helpers (planar_layout):     *)
(* bytes per pixel, horizontal and vertical subsampling of each plane.     *)
(***************************************************************************)
planar_layout(format) ==
    CASE format \in {"ARGB8888", "XRGB8888", "ABGR8888", "XBGR8888"} ->
             [bpp |-> <<4>>, hsub |-> <<1>>, vsub |-> <<1>>]
      [] format = "BGR888" -> [bpp |-> <<3>>, hsub |-> <<1>>, vsub |-> <<1>>]
      [] format = "RGB565" -> [bpp |-> <<2>>, hsub |-> <<1>>, vsub |-> <<1>>]
      [] format = "R8" -> [bpp |-> <<1>>, hsub |-> <<1>>, vsub |-> <<1>>]
      [] format = "NV12" ->
             [bpp |-> <<1, 2>>, hsub |-> <<1, 2>>, vsub |-> <<1, 2>>]
      [] format \in {"YVU420", "YVU420_ANDROID"} ->
             [bpp |-> <<1, 1, 1>>, hsub |-> <<1, 2, 2>>, vsub |-> <<1, 2, 2>>]

\* planes are numbered from 0 in the code and from 1 in the sequences here
drv_num_planes_from_format(format) == Len(planar_layout(format).bpp)

drv_bytes_per_pixel_from_format(format, plane) ==
    planar_layout(format).bpp[plane + 1]

drv_stride_from_format(format, width, plane) ==
    LET l == planar_layout(format)
        plane_width == DIV_ROUND_UP(width, l.hsub[plane + 1])
        stride == plane_width * l.bpp[plane + 1]
    IN  IF format = "YVU420_ANDROID"
        THEN IF plane = 0 THEN ALIGN(stride, 32) ELSE ALIGN(stride, 16)
        ELSE stride

drv_size_from_format(format, stride, height, plane) ==
    stride * DIV_ROUND_UP(height, planar_layout(format).vsub[plane + 1])

(***************************************************************************)
(* hbm.c: description and extent of a request.                             *)
(***************************************************************************)
\* has_linear: the answer of hbm_device_has_modifier(.., DRM_FORMAT_MOD_LINEAR).
\* abort: an assert of the function fails.  asked_linear: the device was asked.
init_description(fmt, mod, use_flags, has_linear) ==
    LET flags == {"EXTERNAL"}
                 \cup (IF "PROTECTED" \in use_flags THEN {"PROTECTED"} ELSE {})
                 \cup (IF "FRONT_RENDERING" \in use_flags
                       THEN {"NO_COMPRESSION"} ELSE {})
        usage == (IF "RENDERING" \in use_flags THEN {"GPU_COLOR"} ELSE {})
                 \cup (IF "TEXTURE" \in use_flags THEN {"GPU_SAMPLED"} ELSE {})
                 \cup (IF "GPU_DATA_BUFFER" \in use_flags
                       THEN {"GPU_UNIFORM", "GPU_STORAGE"} ELSE {})
        abort == \/ use_gpu(use_flags) # (usage # {})
                 \/ use_blob(use_flags) /\ fmt # DRM_FORMAT_R8
        fmt1 == IF use_blob(use_flags) THEN DRM_FORMAT_INVALID ELSE fmt
        mod1 == IF mod = DRM_FORMAT_MOD_INVALID
                   /\ use_flags \cap {"LINEAR", "CURSOR"} # {}
                THEN DRM_FORMAT_MOD_LINEAR ELSE mod
        usage1 == IF mod = DRM_FORMAT_MOD_INVALID /\ use_overlay(use_flags)
                  THEN usage \cup {"GPU_SCANOUT_HACK"} ELSE usage
        flags1 == IF use_sw(use_flags) THEN flags \cup {"MAP", "COPY"} ELSE flags
        ask == /\ use_sw(use_flags)
               /\ mod1 = DRM_FORMAT_MOD_INVALID
               /\ prefer_map(use_flags)
        mod2 == IF ask /\ has_linear THEN DRM_FORMAT_MOD_LINEAR ELSE mod1
    IN  [flags |-> flags1, format |-> fmt1, modifier |-> mod2, usage |-> usage1,
         asked_linear |-> ask, abort |-> abort]

init_extent(fmt, width, height) ==
    IF fmt = DRM_FORMAT_INVALID
    THEN [kind |-> "buffer", size |-> width, width |-> 0, height |-> 0,
          abort |-> height # 1]
    ELSE [kind |-> "image", size |-> 0, width |-> width, height |-> height,
          abort |-> FALSE]

(***************************************************************************)
(* hbm.c: memory-type selection.                                           *)
(***************************************************************************)
\* a plausible slip: every request is given the CPU route through staging
pick_constraints_always_staged(modifier, use_flags) ==
    [required_flags |-> IF use_overlay(use_flags) THEN HBM_MEMORY_TYPE_LOCAL
                        ELSE 0,
     disallowed_flags |-> IF use_overlay(use_flags) THEN HBM_MEMORY_TYPE_CACHED
                          ELSE 0,
     preferred_flag |-> HBM_MEMORY_TYPE_LOCAL,
     use_staging |-> TRUE]

\* lines 318-342: what pick_memory_type asks of a memory type
pick_constraints(modifier, use_flags) ==
    LET overlay == use_overlay(use_flags)
        required0 == IF overlay THEN HBM_MEMORY_TYPE_LOCAL ELSE 0
        disallowed == IF overlay THEN HBM_MEMORY_TYPE_CACHED ELSE 0
        direct == /\ use_sw(use_flags)
                  /\ modifier = DRM_FORMAT_MOD_LINEAR
                  /\ prefer_map(use_flags)
        required == IF direct THEN BitOr(required0, HBM_MEMORY_TYPE_MAPPABLE)
                    ELSE required0
        preferred0 == IF direct THEN HBM_MEMORY_TYPE_CACHED
                      ELSE HBM_MEMORY_TYPE_LOCAL
        preferred == IF BitAnd(disallowed, preferred0) # 0 THEN 0 ELSE preferred0
    IN  [required_flags |-> required, disallowed_flags |-> disallowed,
         preferred_flag |-> preferred,
         use_staging |-> use_sw(use_flags) /\ ~direct]

\* a plausible slip: the disallowed flags are not looked at
mt_admissible_ignores_disallowed(mt, required_flags, disallowed_flags) ==
    BitAnd(mt, required_flags) = required_flags

\* line 351, negated: the loop does not skip mt
mt_admissible(mt, required_flags, disallowed_flags) ==
    /\ BitAnd(mt, required_flags) = required_flags
    /\ BitAnd(mt, disallowed_flags) = 0

\* lines 349-362: the loop from index i on, best_mt as it stands
RECURSIVE pick_loop(_, _, _, _)
pick_loop(mts, i, c, best_mt) ==
    IF i > Len(mts) THEN best_mt
    ELSE IF ~mt_admissible(mts[i], c.required_flags, c.disallowed_flags)
    THEN pick_loop(mts, i + 1, c, best_mt)
    ELSE IF BitAnd(mts[i], c.preferred_flag) # 0 THEN mts[i]
    ELSE IF best_mt = 0
    THEN IF c.preferred_flag = 0 THEN mts[i]
         ELSE pick_loop(mts, i + 1, c, mts[i])
    ELSE pick_loop(mts, i + 1, c, best_mt)

\* mts_ok: get_memory_types could allocate its array
pick_memory_type(modifier, use_flags, mts, mts_ok) ==
    LET c == pick_constraints(modifier, use_flags)
        best_mt == pick_loop(mts, 1, c, -1)
    IN  IF ~mts_ok \/ best_mt = -1
        THEN [ok |-> FALSE, mt |-> -1, use_staging |-> FALSE]
        ELSE [ok |-> TRUE, mt |-> best_mt, use_staging |-> c.use_staging]

(***************************************************************************)
(* hbm.c: resources.                                                       *)
(***************************************************************************)
DRV_MAX_PLANES == 4

NULL == [null |-> TRUE]

ZeroPlanes == [p \in 1 .. DRV_MAX_PLANES |-> 0]

\* lines 414-424: the staging offsets and strides of planes 0 .. plane-1 and
\* the running offset, as <<offsets, strides, offset>>
RECURSIVE staging_planes(_, _, _, _)
staging_planes(format, width, height, plane) ==
    IF plane = 0 THEN <<ZeroPlanes, ZeroPlanes, 0>>
    ELSE LET prev == staging_planes(format, width, height, plane - 1)
             stride == drv_stride_from_format(format, width, plane - 1)
             size == drv_size_from_format(format, stride, height, plane - 1)
         IN  <<[prev[1] EXCEPT ![plane] = prev[3]],
               [prev[2] EXCEPT ![plane] = stride],
               prev[3] + size>>

\* The environment of one call: fail names the one external step that fails
\* ("none": none does).
FailSites == {"none", "bo_create", "mts_malloc", "dup", "bind", "calloc"}

\* dmabuf: -1 or the caller's descriptor.  The result names the return site.
create_resource(layout_modifier, desc, extent, use_flags, dmabuf, mts, fail) ==
    LET pick == pick_memory_type(layout_modifier, use_flags, mts,
                                 fail # "mts_malloc")
        dupped == dmabuf >= 0
        st == staging_planes(desc.format, extent.width, extent.height,
                             drv_num_planes_from_format(desc.format))
        res == [format |-> desc.format,
                use_sw |-> use_sw(use_flags),
                implicit_fence_dmabuf |-> -1,
                mt |-> pick.mt,
                staging_size |->
                    IF ~pick.use_staging THEN 0
                    ELSE IF desc.format = DRM_FORMAT_INVALID THEN extent.size
                    ELSE st[3],
                staging_offsets |->
                    IF pick.use_staging /\ desc.format # DRM_FORMAT_INVALID
                    THEN st[1] ELSE ZeroPlanes,
                staging_strides |->
                    IF pick.use_staging /\ desc.format # DRM_FORMAT_INVALID
                    THEN st[2] ELSE ZeroPlanes]
    IN  IF ~pick.ok THEN [res |-> NULL, err |-> "pick", dupped |-> FALSE]
        ELSE IF dupped /\ fail = "dup"
        THEN [res |-> NULL, err |-> "dup", dupped |-> FALSE]
        ELSE IF fail = "bind"
        THEN [res |-> NULL, err |-> "bind", dupped |-> dupped]
        ELSE IF fail = "calloc"
        THEN [res |-> NULL, err |-> "calloc", dupped |-> dupped]
        ELSE [res |-> res, err |-> "none", dupped |-> dupped]

\* hbm_bo_layout of a freshly created bo: the device lays the planes out; here
\* tightly, with the standard strides
device_layout(desc, extent, layout_modifier) ==
    IF desc.format = DRM_FORMAT_INVALID
    THEN [size |-> extent.size, modifier |-> layout_modifier, plane_count |-> 1,
          offsets |-> ZeroPlanes, strides |-> ZeroPlanes]
    ELSE LET st == staging_planes(desc.format, extent.width, extent.height,
                                  drv_num_planes_from_format(desc.format))
         IN  [size |-> st[3], modifier |-> layout_modifier,
              plane_count |-> drv_num_planes_from_format(desc.format),
              offsets |-> st[1], strides |-> st[2]]

init_bo_metadata(layout) ==
    [total_size |-> layout.size,
     format_modifier |-> layout.modifier,
     num_planes |-> layout.plane_count,
     offsets |-> [i \in 1 .. DRV_MAX_PLANES |->
                     IF i <= layout.plane_count THEN layout.offsets[i] ELSE 0],
     strides |-> [i \in 1 .. DRV_MAX_PLANES |->
                     IF i <= layout.plane_count THEN layout.strides[i] ELSE 0],
     sizes |-> [i \in 1 .. DRV_MAX_PLANES |->
                   IF i <= layout.plane_count
                   THEN (IF i + 1 <= layout.plane_count
                         THEN layout.offsets[i + 1] ELSE layout.size)
                        - layout.offsets[i]
                   ELSE 0]]

NoMeta ==
    [total_size |-> 0, format_modifier |-> DRM_FORMAT_MOD_INVALID,
     num_planes |-> 0, offsets |-> ZeroPlanes, strides |-> ZeroPlanes,
     sizes |-> ZeroPlanes]

\* The modifiers a bo created from desc may end up with: the description's own
\* when it names one, else one of the constraint's, else the device's choice.
LayoutModifiers(desc, mods) ==
    IF desc.modifier # DRM_FORMAT_MOD_INVALID THEN {desc.modifier}
    ELSE IF Len(mods) > 1 THEN {mods[i] : i \in 1 .. Len(mods)}
    ELSE {DRM_FORMAT_MOD_LINEAR, MOD_TILED, DRM_FORMAT_MOD_INVALID}

\* dev: [has_linear, layout_modifier, mts, fail], the device's answers
hbm_allocate(width, height, fmt, use_flags, mods, dev) ==
    LET desc_mod == IF Len(mods) = 1 THEN mods[1] ELSE DRM_FORMAT_MOD_INVALID
        desc == init_description(fmt, desc_mod, use_flags, dev.has_linear)
        extent == init_extent(desc.format, width, height)
        layout == device_layout(desc, extent, dev.layout_modifier)
        cr == create_resource(layout.modifier, desc, extent, use_flags, -1,
                              dev.mts, dev.fail)
        none == [res |-> NULL, meta |-> NoMeta, desc |-> desc,
                 extent |-> extent,
                 layout_modifier |-> DRM_FORMAT_MOD_INVALID,
                 bo_live |-> FALSE]
    IN  IF desc.abort \/ extent.abort THEN none @@ [err |-> "abort"]
        ELSE IF dev.fail = "bo_create" THEN none @@ [err |-> "bo_create"]
        ELSE IF cr.res = NULL
        THEN [none EXCEPT !.layout_modifier = layout.modifier]
             @@ [err |-> cr.err]
        ELSE [res |-> cr.res, meta |-> init_bo_metadata(layout), desc |-> desc,
              extent |-> extent,
              layout_modifier |-> layout.modifier, bo_live |-> TRUE,
              err |-> "none"]

(***************************************************************************)
(* hbm.c: re-import, mapping and synchronisation.                          *)
(***************************************************************************)
\* a plausible slip: the descriptor is treated as owned in every case
hbm_reimport_to_driver_owns_all(res, import_fd, new_fd, prime_ok) ==
    LET dmabuf == IF import_fd >= 0
                  THEN IF res.use_sw THEN new_fd ELSE import_fd
                  ELSE new_fd
    IN  IF dmabuf < 0
        THEN [res |-> res, handle |-> 0, closed |-> {}]
        ELSE IF ~prime_ok
        THEN [res |-> res, handle |-> 0, closed |-> {dmabuf}]
        ELSE IF res.use_sw
        THEN [res |-> [res EXCEPT !.implicit_fence_dmabuf = dmabuf],
              handle |-> 1, closed |-> {}]
        ELSE [res |-> res, handle |-> 1, closed |-> {dmabuf}]

\* import_fd: -1 for import_data == NULL, else import_data->fds[0];
\* new_fd: what dup / hbm_bo_export_dma_buf returns (-1: it fails);
\* prime_ok: drmPrimeFDToHandle succeeds.  handle 0 is the failure value.
hbm_reimport_to_driver(res, import_fd, new_fd, prime_ok) ==
    LET dmabuf == IF import_fd >= 0
                  THEN IF res.use_sw THEN new_fd ELSE import_fd
                  ELSE new_fd
        owned == import_fd < 0 \/ res.use_sw
    IN  IF dmabuf < 0
        THEN [res |-> res, handle |-> 0, closed |-> {}]
        ELSE IF ~prime_ok
        THEN [res |-> res, handle |-> 0,
              closed |-> IF owned THEN {dmabuf} ELSE {}]
        ELSE IF res.use_sw
        THEN [res |-> [res EXCEPT !.implicit_fence_dmabuf = dmabuf],
              handle |-> 1, closed |-> {}]
        ELSE [res |-> res, handle |-> 1,
              closed |-> IF owned THEN {dmabuf} ELSE {}]

\* One poll() result: ret > 0 with revents, ret = 0, or ret = -1 with errno.
PollReady(revents) == [ret |-> 1, errno |-> "none", revents |-> revents]
PollTimeout == [ret |-> 0, errno |-> "none", revents |-> {}]
PollError(errno) == [ret |-> -1, errno |-> errno, revents |-> {}]

PollRetry == {PollError("EINTR"), PollError("EAGAIN")}
PollFinal ==
    {PollReady(r) : r \in {{"POLLIN"}, {"POLLOUT"}, {"POLLIN", "POLLOUT"},
                           {"POLLERR"}}}
    \cup {PollTimeout, PollError("EBADF")}

\* the results of the successive poll() calls of one wait: retries, then one
\* result that ends the loop
PollSeqs(n) ==
    UNION {{q \in [1 .. k -> PollRetry \cup PollFinal] :
               /\ q[k] \in PollFinal
               /\ \A i \in 1 .. k - 1 : q[i] \in PollRetry} : k \in 1 .. n}

\* lines 694-700: the loop from the i-th poll() on
RECURSIVE poll_loop(_, _, _)
poll_loop(polls, i, events) ==
    IF polls[i].ret > 0 THEN polls[i].revents \cap events # {}
    ELSE IF polls[i].ret = 0 \/ ~(polls[i].errno \in {"EINTR", "EAGAIN"})
    THEN FALSE
    ELSE poll_loop(polls, i + 1, events)

\* map_flags: the flags stored in the vma of the mapping
wait_resource(res, map_flags, polls) ==
    LET events == IF "WRITE" \in map_flags THEN {"POLLOUT"} ELSE {"POLLIN"}
    IN  IF res.implicit_fence_dmabuf < 0
        THEN [ret |-> TRUE, polled |-> FALSE, events |-> {}]
        ELSE [ret |-> poll_loop(polls, 1, events), polled |-> TRUE,
              events |-> events]

\* Buffer contents: one value per plane.
Data == {"A", "B"}

NumPlanes(format) ==
    IF format = DRM_FORMAT_INVALID THEN 1 ELSE drv_num_planes_from_format(format)

Contents(format) == [1 .. NumPlanes(format) -> Data]

Pristine(format) == [p \in 1 .. NumPlanes(format) |-> "A"]

\* The callee's view of a vma: priv (a live staging bo or none) with the
\* staging bo's contents, and the map_flags the caller keeps in it.
FreshVma == [live |-> FALSE, map_flags |-> {}, priv |-> FALSE, data |-> <<>>]

\* env of a map/unmap call: map_fail names the failing step of hbm_map
\* ("none", "create", "bind", "map"), garbage is what a newly allocated staging
\* bo holds, polls the poll() results, copy_ok the result of the copy, partial
\* what a failed copy leaves in the destination plane.
\* Returns the pointer (TRUE) or NULL (FALSE), the vma and the count of direct
\* mappings of res->bo.
hbm_map(res, vma, direct, env) ==
    IF res.staging_size = 0
    THEN IF env.map_fail = "map"
         THEN [ptr |-> FALSE, vma |-> vma, direct |-> direct]
         ELSE [ptr |-> TRUE, vma |-> vma, direct |-> direct + 1]
    ELSE IF env.map_fail # "none"
    THEN [ptr |-> FALSE, vma |-> vma, direct |-> direct]
    ELSE [ptr |-> TRUE,
          vma |-> [vma EXCEPT !.priv = TRUE, !.data = env.garbage],
          direct |-> direct]

hbm_unmap(res, vma, direct) ==
    IF res.staging_size = 0
    THEN [vma |-> vma, direct |-> IF direct > 0 THEN direct - 1 ELSE 0]
    ELSE [vma |-> [vma EXCEPT !.priv = FALSE, !.data = <<>>], direct |-> direct]

\* plane is numbered from 0.  The rectangle is the whole buffer, as
\* dri_bo_map and dri_bo_unmap pass it.  copy: the direction of the
\* hbm_bo_copy_buffer or hbm_bo_copy_buffer_image call made, "to_real" with
\* dst = res->bo, "to_staging" with dst = vma->priv.
hbm_sync(res, vma, real, plane, flush, env) ==
    LET wait == wait_resource(res, vma.map_flags, env.polls)
        p == plane + 1
        copied(dst, src) ==
            IF res.format = DRM_FORMAT_INVALID
            THEN IF env.copy_ok THEN src ELSE [q \in DOMAIN dst |-> env.partial]
            ELSE [dst EXCEPT ![p] = IF env.copy_ok THEN src[p] ELSE env.partial]
    IN  IF ~wait.ret
        THEN [ret |-> FALSE, wait |-> wait, vma |-> vma, real |-> real,
              copy |-> "none"]
        ELSE IF res.staging_size = 0
        THEN [ret |-> TRUE, wait |-> wait, vma |-> vma, real |-> real,
              copy |-> "none"]
        ELSE IF flush
        THEN [ret |-> env.copy_ok, wait |-> wait, vma |-> vma,
              real |-> copied(real, vma.data), copy |-> "to_real"]
        ELSE [ret |-> env.copy_ok, wait |-> wait,
              vma |-> [vma EXCEPT !.data = copied(vma.data, real)],
              real |-> real, copy |-> "to_staging"]

NoWait == [ret |-> TRUE, polled |-> FALSE, events |-> {}]

\* vma.map_flags is whatever the caller has put there by the time of the call
dri_bo_map(res, vma, real, direct, map_flags, env) ==
    LET m == hbm_map(res, vma, direct, env)
        sy == hbm_sync(res, m.vma, real, 0, FALSE, env)
    IN  IF ~m.ptr
        THEN [ret |-> "MAP_FAILED", vma |-> vma, real |-> real,
              direct |-> direct, synced |-> FALSE, sync_ret |-> TRUE,
              wait |-> NoWait, copy |-> "none"]
        ELSE IF "READ" \in map_flags
        THEN [ret |-> "ptr", vma |-> sy.vma, real |-> sy.real,
              direct |-> m.direct, synced |-> TRUE, sync_ret |-> sy.ret,
              wait |-> sy.wait, copy |-> sy.copy]
        ELSE [ret |-> "ptr", vma |-> m.vma, real |-> real, direct |-> m.direct,
              synced |-> FALSE, sync_ret |-> TRUE, wait |-> NoWait,
              copy |-> "none"]

\* a plausible slip: a failed hbm_sync returns early, before hbm_unmap
dri_bo_unmap_early_return(res, vma, real, direct, env) ==
    LET sy == hbm_sync(res, vma, real, 0, TRUE, env)
        synced == "WRITE" \in vma.map_flags
        u == hbm_unmap(res, vma, direct)
    IN  IF synced /\ ~sy.ret
        THEN [ret |-> -1, vma |-> vma, real |-> sy.real, direct |-> direct,
              synced |-> TRUE, sync_ret |-> FALSE, wait |-> sy.wait,
              released |-> FALSE, copy |-> sy.copy]
        ELSE [ret |-> 0, vma |-> u.vma,
              real |-> IF synced THEN sy.real ELSE real,
              direct |-> u.direct, synced |-> synced, sync_ret |-> TRUE,
              wait |-> IF synced THEN sy.wait ELSE NoWait, released |-> TRUE,
              copy |-> IF synced THEN sy.copy ELSE "none"]

dri_bo_unmap(res, vma, real, direct, env) ==
    LET synced == "WRITE" \in vma.map_flags
        sy == hbm_sync(res, vma, real, 0, TRUE, env)
        real1 == IF synced THEN sy.real ELSE real
        u == hbm_unmap(res, vma, direct)
    IN  [ret |-> 0, vma |-> u.vma, real |-> real1, direct |-> u.direct,
         synced |-> synced, sync_ret |-> IF synced THEN sy.ret ELSE TRUE,
         wait |-> IF synced THEN sy.wait ELSE NoWait, released |-> TRUE,
         copy |-> IF synced THEN sy.copy ELSE "none"]

(***************************************************************************)
(* dmabuf_internals.cpp: the dma-buf heap backend.                         *)
(***************************************************************************)
EINVAL == 22
ENOMEM == 12

\* use flags the dma-buf backend knows, by the group it removes them in
BO_USE_CAMERA == {"CAMERA_READ", "CAMERA_WRITE"}
BO_USE_HW_VIDEO == {"HW_VIDEO_DECODER", "HW_VIDEO_ENCODER"}
BO_USE_ANY_HEAP == {"CURSOR", "TEXTURE", "RENDERING"}

supported_formats ==
    {"ARGB8888", "XRGB8888", "ABGR8888", "XBGR8888", "RGB565", "BGR888",
     "NV12", "YVU420", "YVU420_ANDROID", DRM_FORMAT_R8}

is_format_supported(format) == format \in supported_formats

\* a plausible slip: the helper clears the whole word, not the masked bits
unmask64_clears_word(value, mask) ==
    IF value \cap mask # {}
    THEN [hit |-> TRUE, value |-> {}]
    ELSE [hit |-> FALSE, value |-> value]

\* hit: the return value; value: *value after the call
unmask64(value, mask) ==
    IF value \cap mask # {}
    THEN [hit |-> TRUE, value |-> value \ mask]
    ELSE [hit |-> FALSE, value |-> value]

DRM_FORMAT_FLEX_IMPLEMENTATION_DEFINED == "FLEX_IMPLEMENTATION_DEFINED"
DRM_FORMAT_FLEX_YCbCr_420_888 == "FLEX_YCbCr_420_888"

\* a plausible slip: the camera test is left out
dmabuf_resolve_ignores_camera(format, use_flags) ==
    [format |-> CASE format = DRM_FORMAT_FLEX_IMPLEMENTATION_DEFINED -> "NV12"
                  [] format = DRM_FORMAT_FLEX_YCbCr_420_888 -> "NV12"
                  [] format = "BGR565" -> "RGB565"
                  [] OTHER -> format,
     use_flags |-> use_flags]

\* the result is <<*out_format, *out_use_flags>> as a record
dmabuf_resolve_format_and_use_flags(format, use_flags) ==
    [format |-> CASE format = DRM_FORMAT_FLEX_IMPLEMENTATION_DEFINED ->
                         IF use_flags \cap BO_USE_CAMERA # {} THEN "NV12"
                         ELSE "XBGR8888"
                  [] format = DRM_FORMAT_FLEX_YCbCr_420_888 -> "NV12"
                  [] format = "BGR565" -> "RGB565"
                  [] OTHER -> format,
     use_flags |-> use_flags]

\* a plausible slip: no fallback when an optional heap does not open, the
\* descriptor stays invalid
dmabuf_get_or_init_driver_no_fallback(drv_priv, heaps) ==
    IF drv_priv = NULL
    THEN IF ~heaps.system
         THEN [drv |-> NULL, priv |-> NULL]
         ELSE LET d == [system_heap_fd |-> "system",
                        system_heap_uncached_fd |->
                            IF heaps.uncached THEN "system-uncached"
                            ELSE "invalid",
                        cma_heap_fd |->
                            IF heaps.cma THEN "linux,cma" ELSE "invalid"]
              IN  [drv |-> d, priv |-> d]
    ELSE [drv |-> drv_priv, priv |-> drv_priv]

\* heaps: which of the heap devices open.  drv_priv: drv->priv, NULL or the
\* three descriptors, each named by the heap it refers to.
dmabuf_get_or_init_driver(drv_priv, heaps) ==
    IF drv_priv = NULL
    THEN IF ~heaps.system
         THEN [drv |-> NULL, priv |-> NULL]
         ELSE LET d == [system_heap_fd |-> "system",
                        system_heap_uncached_fd |->
                            IF heaps.uncached THEN "system-uncached"
                            ELSE "system",
                        cma_heap_fd |->
                            IF heaps.cma THEN "linux,cma" ELSE "system"]
              IN  [drv |-> d, priv |-> d]
    ELSE [drv |-> drv_priv, priv |-> drv_priv]

\* drv_helpers: the stride of a plane from the stride of plane 0
subsample_stride(stride, format, plane) ==
    IF plane # 0 /\ format \in {"YVU420", "YVU420_ANDROID"}
    THEN IF format = "YVU420_ANDROID"
         THEN ALIGN(DIV_ROUND_UP(stride, 2), 16)
         ELSE DIV_ROUND_UP(stride, 2)
    ELSE stride

RECURSIVE SumTo(_, _)
SumTo(sizes, k) == IF k = 0 THEN 0 ELSE sizes[k] + SumTo(sizes, k - 1)

\* drv_helpers: the planes laid out one after the other
drv_bo_from_format(stride, aligned_height, format) ==
    LET n == drv_num_planes_from_format(format)
        strides == [p \in 1 .. n |-> subsample_stride(stride, format, p - 1)]
        sizes == [p \in 1 .. n |->
                     drv_size_from_format(format, strides[p], aligned_height,
                                          p - 1)]
    IN  [num_planes |-> n, strides |-> strides, sizes |-> sizes,
         offsets |-> [p \in 1 .. n |-> SumTo(sizes, p - 1)],
         total_size |-> SumTo(sizes, n)]

\* a bo of the dma-buf backend before dmabuf_bo_create2 or dmabuf_bo_import
NoDmabufBo == [priv |-> NULL, meta |-> NULL]

\* env.heaps: see dmabuf_get_or_init_driver; env.alloc_errno: 0, or the errno
\* of a failing DMA_HEAP_IOCTL_ALLOC.  alloc: the allocation requested of the
\* heap, with the size alignment its length was rounded to; NULL when the
\* ioctl is not issued.
dmabuf_bo_create2(drv_priv, bo, width, height, format, use_flags, test_only, env) ==
    LET g == dmabuf_get_or_init_driver(drv_priv, env.heaps)
        stride0 == drv_stride_from_format(format, width, 0)
        u1 == unmask64(use_flags, BO_USE_SW_MASK)
        u2 == unmask64(u1.value, {"SCANOUT"})
        u3 == unmask64(u2.value, BO_USE_CAMERA)
        u4 == unmask64(u3.value, BO_USE_HW_VIDEO)
        u5 == unmask64(u4.value, BO_USE_ANY_HEAP)
        force_cma == u2.hit \/ u3.hit \/ u4.hit
        stride == IF u3.hit \/ u4.hit THEN ALIGN(stride0, 32) ELSE stride0
        size_align == IF u4.hit THEN 4096
                      ELSE IF u3.hit /\ height > 1
                      THEN (ALIGN(width, 32) * ALIGN(height, 16) * 3) \div 2
                      ELSE 4096
        heap_fd == IF force_cma THEN g.drv.cma_heap_fd
                   ELSE g.drv.system_heap_fd
        meta == drv_bo_from_format(stride, height, format)
        request == [heap |-> heap_fd, size_align |-> size_align,
                    len |-> ALIGN(meta.total_size, size_align)]
        reject == [ret |-> -EINVAL, drv_priv |-> g.priv, bo |-> bo,
                   alloc |-> NULL]
    IN  IF ~is_format_supported(format) THEN reject
        ELSE IF g.drv = NULL THEN reject
        ELSE IF u5.value # {} THEN reject
        ELSE IF test_only THEN [reject EXCEPT !.ret = 0]
        ELSE IF env.alloc_errno # 0
        THEN [ret |-> -env.alloc_errno, drv_priv |-> g.priv,
              bo |-> [bo EXCEPT !.meta = meta], alloc |-> request]
        ELSE [ret |-> 0, drv_priv |-> g.priv,
              bo |-> [priv |-> [fds |-> meta.num_planes], meta |-> meta],
              alloc |-> request]

\* meta: bo->meta as the caller has filled it in from the import data
dmabuf_bo_import(bo, meta) ==
    IF bo.priv # NULL
    THEN [ret |-> -EINVAL, bo |-> bo]
    ELSE [ret |-> 0, bo |-> [priv |-> [fds |-> meta.num_planes], meta |-> meta]]

dmabuf_bo_destroy(bo) == [ret |-> 0, bo |-> [bo EXCEPT !.priv = NULL]]

\* a plausible slip: the bracket is opened before mmap is known to succeed
dmabuf_bo_map_syncs_first(bo, map_flags, env) ==
    IF ~env.mmap_ok
    THEN [ret |-> "MAP_FAILED", length |-> bo.meta.total_size,
          sync |-> <<"START">>, calls |-> <<"START", "mmap_failed">>]
    ELSE [ret |-> "ptr", length |-> bo.meta.total_size, sync |-> <<"START">>,
          calls |-> <<"START", "mmap">>]

\* env.mmap_ok: mmap succeeds.  sync: the DMA_BUF_IOCTL_SYNC calls issued, whose
\* results are only logged.  calls: the system calls made on the buffer, in
\* the order of the code.
dmabuf_bo_map(bo, map_flags, env) ==
    IF ~env.mmap_ok
    THEN [ret |-> "MAP_FAILED", length |-> bo.meta.total_size, sync |-> <<>>,
          calls |-> <<"mmap_failed">>]
    ELSE [ret |-> "ptr", length |-> bo.meta.total_size, sync |-> <<"START">>,
          calls |-> <<"mmap", "START">>]

\* env.munmap_ret: the result of munmap
dmabuf_bo_unmap(bo, env) ==
    [ret |-> env.munmap_ret, sync |-> <<"END">>, munmap |-> TRUE,
     calls |-> <<"END", "munmap">>]

dmabuf_bo_flush(bo) ==
    [ret |-> 0, sync |-> <<"END", "START">>, calls |-> <<"END", "START">>]

(***************************************************************************)
(* Ownership of objects and descriptors: hbm.c import, re-import and free, *)
(* dri.c import_into_minigbm.                                              *)
(***************************************************************************)
\* import_data->fds[0], the caller's descriptor.  The descriptors the engine
\* obtains afterwards are numbered from ImportFd + 1 on.
ImportFd == 3

\* The descriptor table: entry i describes descriptor ImportFd + i - 1, where
\* it came from ("caller", "dup", "export"), whether it is open, whether it
\* was handed to hbm_bo_bind_memory (the provider owns it from then on), and
\* how often the engine closed it.
CallerFds ==
    <<[from |-> "caller", state |-> "open", bound |-> FALSE, closes |-> 0]>>

NextFd(fds) == ImportFd + Len(fds)

OpenFd(fds, from) ==
    Append(fds, [from |-> from, state |-> "open", bound |-> FALSE,
                 closes |-> 0])

CloseFd(fds, fd) ==
    LET i == fd - ImportFd + 1
    IN  [fds EXCEPT ![i].state = "closed", ![i].closes = @ + 1]

BindFd(fds, fd) ==
    LET i == fd - ImportFd + 1
    IN  [fds EXCEPT ![i].bound = TRUE]

RECURSIVE CloseFds(_, _)
CloseFds(fds, closed) ==
    IF closed = {} THEN fds
    ELSE LET fd == CHOOSE x \in closed : TRUE
         IN  CloseFds(CloseFd(fds, fd), closed \ {fd})

\* The objects other than descriptors, counted per kind.  At most one object
\* of a kind is alive at a time, so released > made is a second release of
\* one object and released < made at rest is a leak.
ObjKinds ==
    {"bo", "res", "staging", "handle", "image", "plane_image", "prime_fd"}

NoObjs == [k \in ObjKinds |-> [made |-> 0, released |-> 0]]

Made(objs, k) == [objs EXCEPT ![k].made = @ + 1]

Released(objs, k) == [objs EXCEPT ![k].released = @ + 1]

\* events: a sequence of <<"make", kind>> and <<"release", kind>>
RECURSIVE ApplyEvents(_, _)
ApplyEvents(objs, events) ==
    IF events = <<>> THEN objs
    ELSE ApplyEvents(IF Head(events)[1] = "make"
                     THEN Made(objs, Head(events)[2])
                     ELSE Released(objs, Head(events)[2]),
                     Tail(events))

\* lines 485-509.  size: what lseek(fds[0], 0, SEEK_END) returns.  A zeroed
\* modifier field is DRM_FORMAT_MOD_LINEAR.
init_layout(fmt, import_data, size) ==
    LET count == Cardinality({i \in 1 .. DRV_MAX_PLANES :
                                 \A j \in 1 .. i : import_data.fds[j] >= 0})
        blank == [size |-> size, modifier |-> DRM_FORMAT_MOD_LINEAR,
                  plane_count |-> 0, offsets |-> ZeroPlanes,
                  strides |-> ZeroPlanes]
    IN  IF size = -1 THEN [ok |-> FALSE, layout |-> blank]
        ELSE IF fmt = DRM_FORMAT_INVALID THEN [ok |-> TRUE, layout |-> blank]
        ELSE [ok |-> TRUE,
              layout |->
                  [size |-> size, modifier |-> import_data.format_modifier,
                   plane_count |-> count,
                   offsets |-> [i \in 1 .. DRV_MAX_PLANES |->
                                   IF i <= count THEN import_data.offsets[i]
                                   ELSE 0],
                   strides |-> [i \in 1 .. DRV_MAX_PLANES |->
                                   IF i <= count THEN import_data.strides[i]
                                   ELSE 0]]]

\* lines 511-540.  dev: [has_linear, size, mts, fail], the answers of the
\* device and of the kernel.  bo_made: hbm_bo_create_with_layout returned a bo;
\* bo_live: it has not been destroyed; dupped: create_resource duplicated
\* fds[0]; bound: a descriptor reached hbm_bo_bind_memory.
hbm_import(import_data, dev) ==
    LET desc == init_description(import_data.format, import_data.format_modifier,
                                 import_data.use_flags, dev.has_linear)
        extent == init_extent(desc.format, import_data.width, import_data.height)
        il == init_layout(desc.format, import_data, dev.size)
        cr == create_resource(il.layout.modifier, desc, extent,
                              import_data.use_flags, import_data.fds[1],
                              dev.mts, dev.fail)
        none == [res |-> NULL, meta |-> NoMeta, bo_made |-> FALSE,
                 bo_live |-> FALSE, dupped |-> FALSE, bound |-> FALSE]
    IN  IF desc.abort \/ extent.abort THEN none @@ [err |-> "abort"]
        ELSE IF ~il.ok THEN none @@ [err |-> "lseek"]
        ELSE IF dev.fail = "bo_create" THEN none @@ [err |-> "bo_create"]
        ELSE IF cr.res = NULL
        THEN [res |-> NULL, meta |-> NoMeta, bo_made |-> TRUE,
              bo_live |-> FALSE, dupped |-> cr.dupped,
              bound |-> cr.err \in {"bind", "calloc"}, err |-> cr.err]
        ELSE [res |-> cr.res, meta |-> init_bo_metadata(il.layout),
              bo_made |-> TRUE, bo_live |-> TRUE, dupped |-> cr.dupped,
              bound |-> TRUE, err |-> "none"]

\* lines 542-550, on the descriptor table and the object counts
hbm_free(res, fds, objs) ==
    [fds |-> IF res.implicit_fence_dmabuf >= 0
             THEN CloseFd(fds, res.implicit_fence_dmabuf) ELSE fds,
     objs |-> Released(Released(objs, "bo"), "res")]

ENOENT == 2
ENOSYS == 38

\* dri.c 131-152, planes i .. env.num_planes of the loop (numbered from 1).
\* env.planes[i]: whether fromPlanar returns an image, whether the stride and
\* offset queries succeed, and their answers.  A uint32_t holding 2^32 - k is
\* written -k: TLC's integers end at 2^31 - 1.
RECURSIVE import_planes(_, _, _)
import_planes(env, i, meta) ==
    IF i > env.num_planes THEN [ok |-> TRUE, meta |-> meta, events |-> <<>>]
    ELSE LET plane == env.planes[i]
             made == IF plane.planar THEN <<<<"make", "plane_image">>>> ELSE <<>>
             gone == IF plane.planar THEN <<<<"release", "plane_image">>>>
                     ELSE <<>>
             m1 == [meta EXCEPT !.strides[i] = plane.stride,
                                !.offsets[i] = plane.offset]
             m2 == IF i > 1
                   THEN [m1 EXCEPT !.sizes[i - 1] =
                                       m1.offsets[i] - m1.offsets[i - 1]]
                   ELSE m1
             rest == import_planes(env, i + 1, m2)
         IN  IF ~plane.ok
             THEN [ok |-> FALSE, meta |-> meta,
                   events |-> made \o gone \o <<<<"release", "handle">>>>]
             ELSE [ok |-> rest.ok, meta |-> rest.meta,
                   events |-> made \o gone \o rest.events]

\* a plausible slip: close(prime_fd) comes after the test of
\* drmPrimeFDToHandle's result, so the failure return leaves it open
import_into_minigbm_keeps_fd_on_prime_failure(env) ==
    LET meta0 == [NoMeta EXCEPT !.format_modifier =
                      IF env.modifier_ok THEN env.modifier
                      ELSE DRM_FORMAT_MOD_INVALID]
        meta1 == [meta0 EXCEPT !.num_planes = env.num_planes]
        fd == <<<<"make", "prime_fd">>>>
        loop == import_planes(env, 1, meta1)
        n == env.num_planes
    IN  IF ~env.num_planes_ok
        THEN [ret |-> -env.errno, step |-> "num_planes", handle |-> 0,
              meta |-> meta0, events |-> <<>>]
        ELSE IF ~env.fd_ok
        THEN [ret |-> -env.errno, step |-> "fd", handle |-> 0, meta |-> meta1,
              events |-> <<>>]
        ELSE IF env.size = -1
        THEN [ret |-> -EINVAL, step |-> "lseek", handle |-> 0, meta |-> meta1,
              events |-> fd \o <<<<"release", "prime_fd">>>>]
        ELSE IF ~env.prime_ok
        THEN [ret |-> -1, step |-> "prime", handle |-> 0, meta |-> meta1,
              events |-> fd]
        ELSE IF ~loop.ok
        THEN [ret |-> -env.errno, step |-> "plane", handle |-> 1,
              meta |-> loop.meta,
              events |-> fd \o <<<<"release", "prime_fd">>, <<"make", "handle">>>>
                         \o loop.events]
        ELSE [ret |-> 0, step |-> "none", handle |-> 1,
              meta |-> [loop.meta EXCEPT
                            !.sizes[n] = env.size - loop.meta.offsets[n],
                            !.total_size = env.size],
              events |-> fd \o <<<<"release", "prime_fd">>, <<"make", "handle">>>>
                         \o loop.events]

\* dri.c 92-168.  env: the answers of the driver and the kernel; env.errno is
\* what errno holds when a queryImage call has returned false (queryImage is a
\* driver callback; nothing here sets errno before it is read).  lseek sets
\* errno itself.  handle: bo->handle.u32 after the call.
import_into_minigbm(env) ==
    LET meta0 == [NoMeta EXCEPT !.format_modifier =
                      IF env.modifier_ok THEN env.modifier
                      ELSE DRM_FORMAT_MOD_INVALID]
        meta1 == [meta0 EXCEPT !.num_planes = env.num_planes]
        fd == <<<<"make", "prime_fd">>>>
        loop == import_planes(env, 1, meta1)
        n == env.num_planes
    IN  IF ~env.num_planes_ok
        THEN [ret |-> -env.errno, step |-> "num_planes", handle |-> 0,
              meta |-> meta0, events |-> <<>>]
        ELSE IF ~env.fd_ok
        THEN [ret |-> -env.errno, step |-> "fd", handle |-> 0, meta |-> meta1,
              events |-> <<>>]
        ELSE IF env.size = -1
        THEN [ret |-> -EINVAL, step |-> "lseek", handle |-> 0, meta |-> meta1,
              events |-> fd \o <<<<"release", "prime_fd">>>>]
        ELSE IF ~env.prime_ok
        THEN [ret |-> -1, step |-> "prime", handle |-> 0, meta |-> meta1,
              events |-> fd \o <<<<"release", "prime_fd">>>>]
        ELSE IF ~loop.ok
        THEN [ret |-> -env.errno, step |-> "plane", handle |-> 1,
              meta |-> loop.meta,
              events |-> fd \o <<<<"release", "prime_fd">>, <<"make", "handle">>>>
                         \o loop.events]
        ELSE [ret |-> 0, step |-> "none", handle |-> 1,
              meta |-> [loop.meta EXCEPT
                            !.sizes[n] = env.size - loop.meta.offsets[n],
                            !.total_size = env.size],
              events |-> fd \o <<<<"release", "prime_fd">>, <<"make", "handle">>>>
                         \o loop.events]

\* dri.c 270-381: dri_bo_create, dri_bo_create_with_modifiers and dri_bo_import
\* create the DRI image, each through its own entry point of the image
\* extension, and then share the same steps.  entry names the function,
\* env.has_entry whether the extension provides the entry point, env.image_ok
\* whether it returns an image.
dri_bo_create(entry, env) ==
    LET im == import_into_minigbm(env)
        none == [priv |-> "null", handle |-> 0, meta |-> NoMeta,
                 events |-> <<>>]
    IN  IF entry = "create_with_modifiers" /\ ~env.has_entry
        THEN none @@ [ret |-> -ENOENT, step |-> "entry"]
        ELSE IF entry = "import_with_modifier" /\ ~env.has_entry
        THEN none @@ [ret |-> -ENOSYS, step |-> "entry"]
        ELSE IF ~env.image_ok
        THEN none @@ [ret |-> IF entry = "import_with_modifier" THEN -ENOSYS
                              ELSE -env.errno,
                      step |-> "image"]
        ELSE IF im.ret # 0
        THEN [ret |-> im.ret, step |-> im.step, priv |-> "freed",
              handle |-> im.handle, meta |-> im.meta,
              events |-> <<<<"make", "image">>>> \o im.events
                         \o <<<<"release", "image">>>>]
        ELSE [ret |-> 0, step |-> im.step, priv |-> "image",
              handle |-> im.handle, meta |-> im.meta,
              events |-> <<<<"make", "image">>>> \o im.events]

(***************************************************************************)
(* Spec: the life of one buffer object.                                    *)
(***************************************************************************)
NoCall == [called |-> FALSE]
WideIdle == wIn = NoCall /\ wOut = NoCall
RaceIdle == tPriv = 0 /\ tCtxs = <<>> /\ tProc = <<>>
StagingIdle == sIn = NoCall /\ sOut = NoCall
WaitVarsIdle == kWait = NoCall /\ kFence = NoCall
BracketIdle == bMap = NoCall /\ bCalls = <<>>
FdIdle == fBo = NoCall /\ fFds = <<>> /\ fLast = NoCall
LateIdle == FdIdle
MoreIdle ==
    /\ WideIdle /\ RaceIdle /\ StagingIdle /\ WaitVarsIdle /\ BracketIdle
    /\ LateIdle
PureIdle ==
    /\ pIn = NoCall /\ pOut = NoCall /\ aReq = NoCall /\ aOut = NoCall
    /\ rIn = NoCall /\ rOut = NoCall /\ cIn = NoCall /\ cOut = NoCall

Modifiers == {DRM_FORMAT_MOD_LINEAR, MOD_TILED, DRM_FORMAT_MOD_INVALID}

\* <<format, width, height>> of the requests
AllocShapes == {<<"R8", 4, 1>>, <<"NV12", 4, 2>>}

NoLast ==
    [op |-> "none", ret |-> "none", rc |-> 0, flags |-> {}, busy |-> FALSE,
     fenced |-> FALSE, synced |-> FALSE, sync_ret |-> TRUE, wait |-> NoWait,
     released |-> FALSE, copy |-> "none"]

NoDmabufLast ==
    [op |-> "none", ret |-> 0, ptr |-> "none", busy |-> FALSE,
     format |-> "none", use_flags |-> {}, test_only |-> FALSE,
     alloc |-> NULL, sync |-> <<>>, munmap |-> FALSE]

\* the state before any bo exists
LifeIdle ==
    /\ hPriv = "null"
    /\ hRes = NULL
    /\ hMeta = NoMeta
    /\ hVma = [v \in 1 .. MaxVma |-> FreshVma]
    /\ hDirect = 0
    /\ hReal = <<>>
    /\ hWritten = FALSE
    /\ hLast = NoLast
    /\ dDrv = NULL
    /\ dBo = NoDmabufBo
    /\ dVma = [v \in 1 .. MaxVma |-> FALSE]
    /\ dAllocs = 0
    /\ dLast = NoDmabufLast

NoOwnBo ==
    [priv |-> "null", res |-> NULL, handle |-> 0, meta |-> NoMeta,
     vma |-> FreshVma, direct |-> 0, reimports |-> 0]

NoOwnLast == [op |-> "none", ret |-> 0, step |-> "none"]

OwnIdle ==
    /\ oBo = NoOwnBo
    /\ oFds = CallerFds
    /\ oObjs = NoObjs
    /\ oLast = NoOwnLast

MapFlagSets == {{"READ"}, {"WRITE"}, {"READ", "WRITE"}}

\* the requests of Spec: device-only, CPU through direct mapping, CPU through
\* staging, a blob
LifeUses ==
    {{}, {"TEXTURE"}, {"SW_READ_OFTEN", "SW_WRITE_OFTEN"},
     {"TEXTURE", "SW_READ_RARELY", "SW_WRITE_RARELY"},
     {"GPU_DATA_BUFFER", "SW_READ_RARELY", "SW_WRITE_RARELY"}}

\* the memory types of the device of Spec
LifeMts ==
    <<HBM_MEMORY_TYPE_LOCAL,
      BitOr(HBM_MEMORY_TYPE_MAPPABLE,
            BitOr(HBM_MEMORY_TYPE_CACHED, HBM_MEMORY_TYPE_COHERENT))>>

\* descriptors dup / export may return; -1: the call fails
NewFds == {-1, 3}

Alive == hLast.ret # "abort" /\ hLast.ret # "crash"

\* dri_bo_create_with_modifiers on a new bo (dri_bo_create passes no modifier)
DriBoCreate(use_flags, shape, mods, dev, new_fd, prime_ok) ==
    LET use1 == IF use_flags = {} THEN {"TEXTURE"} ELSE use_flags
        a == hbm_allocate(shape[2], shape[3], shape[1], use1, mods, dev)
        r == hbm_reimport_to_driver(a.res, -1, new_fd, prime_ok)
    IN  /\ backend = "hbm" /\ Alive
        /\ hPriv = "null"
        /\ \A v \in 1 .. MaxVma : ~hVma[v].live
        /\ IF a.err = "abort"
           THEN /\ hLast' = [NoLast EXCEPT !.op = "create", !.ret = "abort"]
                /\ UNCHANGED <<hPriv, hRes, hMeta, hReal>>
           ELSE IF a.res = NULL
           THEN /\ hLast' = [NoLast EXCEPT !.op = "create", !.rc = -1]
                /\ UNCHANGED <<hPriv, hRes, hMeta, hReal>>
           ELSE IF r.handle = 0
           THEN /\ hLast' = [NoLast EXCEPT !.op = "create", !.rc = -1]
                /\ hPriv' = "freed"
                /\ hMeta' = a.meta
                /\ UNCHANGED <<hRes, hReal>>
           ELSE /\ hLast' = [NoLast EXCEPT !.op = "create"]
                /\ hPriv' = "res"
                /\ hRes' = r.res
                /\ hMeta' = a.meta
                /\ hReal' = Pristine(r.res.format)
        /\ hWritten' = FALSE
        /\ UNCHANGED <<pureVars, ownVars, backend, dmabufVars, hVma, hDirect>>

\* the poll() results of one wait, and those after which a wait for some
\* event succeeds
WaitSeqs == PollSeqs(MaxPolls)

ReadySeqs ==
    {q \in WaitSeqs :
        \E events \in {{"POLLIN"}, {"POLLOUT"}} : poll_loop(q, 1, events)}

\* what the environment may do during a map or unmap of the bo; a copy is
\* attempted only after a wait that succeeded
SyncEnvs(res, syncs, garbages) ==
    LET staged == res.staging_size # 0
        fenced == res.implicit_fence_dmabuf >= 0
        calm == [map_fail : {"none"}, garbage : garbages,
                 polls : IF syncs /\ fenced THEN WaitSeqs ELSE {<<PollTimeout>>},
                 copy_ok : {TRUE}, partial : {"A"}]
        torn == [map_fail : {"none"}, garbage : garbages,
                 polls : IF fenced THEN ReadySeqs ELSE {<<PollTimeout>>},
                 copy_ok : {FALSE}, partial : Data]
    IN  IF syncs /\ staged THEN calm \cup torn ELSE calm

MapEnvs(res, syncs) ==
    SyncEnvs(res, syncs,
             IF res.staging_size # 0 THEN Contents(res.format) ELSE {<<>>})

UnmapEnvs(res, syncs) == SyncEnvs(res, syncs, {<<>>})

MapFailEnvs(res) ==
    [map_fail : IF res.staging_size = 0 THEN {"map"}
                ELSE {"create", "bind", "map"},
     garbage : {<<>>}, polls : {<<PollTimeout>>}, copy_ok : {TRUE},
     partial : {"A"}]

\* dri_bo_map through vma v, which the caller has just allocated; preset: the
\* caller stores map_flags in the vma before the call rather than after it
DriBoMap(v, map_flags, preset, env) ==
    /\ backend = "hbm" /\ Alive
    /\ hPriv = "res"
    /\ ~hVma[v].live
    /\ \E r \in {dri_bo_map(hRes,
                            [FreshVma EXCEPT
                                !.map_flags = IF preset THEN map_flags ELSE {}],
                            hReal, hDirect, map_flags, env)} :
        /\ hLast' = [NoLast EXCEPT
                        !.op = "map", !.ret = r.ret, !.flags = map_flags,
                        !.busy = \E w \in 1 .. MaxVma : hVma[w].live,
                        !.fenced = hRes.implicit_fence_dmabuf >= 0,
                        !.synced = r.synced, !.sync_ret = r.sync_ret,
                        !.wait = r.wait, !.copy = r.copy]
        /\ hVma' = IF r.ret = "ptr"
                   THEN [hVma EXCEPT ![v] = [r.vma EXCEPT !.live = TRUE,
                                                          !.map_flags = map_flags]]
                   ELSE hVma
        /\ hReal' = r.real
        /\ hDirect' = r.direct
        /\ UNCHANGED <<pureVars, ownVars, backend, dmabufVars, hPriv, hRes, hMeta, hWritten>>

\* the client stores d into plane p through the pointer of mapping v
ClientWrite(v, p, d) ==
    /\ backend = "hbm" /\ Alive
    /\ hPriv = "res"
    /\ hVma[v].live /\ "WRITE" \in hVma[v].map_flags
    /\ p \in DOMAIN hReal
    /\ IF hRes.staging_size = 0
       THEN /\ hReal' = [hReal EXCEPT ![p] = d]
            /\ UNCHANGED hVma
       ELSE /\ hVma' = [hVma EXCEPT ![v].data[p] = d]
            /\ UNCHANGED hReal
    /\ hWritten' = TRUE
    /\ UNCHANGED <<pureVars, ownVars, backend, dmabufVars, hPriv, hRes, hMeta, hDirect, hLast>>

\* dri_bo_unmap of mapping v
DriBoUnmap(v, env) ==
    /\ backend = "hbm" /\ Alive
    /\ hPriv = "res"
    /\ hVma[v].live
    /\ \E r \in {dri_bo_unmap(hRes, hVma[v], hReal, hDirect, env)} :
        /\ hLast' = [NoLast EXCEPT
                        !.op = "unmap", !.rc = r.ret,
                        !.flags = hVma[v].map_flags,
                        !.busy = TRUE,
                        !.fenced = hRes.implicit_fence_dmabuf >= 0,
                        !.synced = r.synced, !.sync_ret = r.sync_ret,
                        !.wait = r.wait, !.released = r.released,
                        !.copy = r.copy]
        /\ hVma' = [hVma EXCEPT ![v] = IF r.released THEN FreshVma ELSE r.vma]
        /\ hReal' = r.real
        /\ hDirect' = r.direct
        /\ UNCHANGED <<pureVars, ownVars, backend, dmabufVars, hPriv, hRes, hMeta, hWritten>>

\* dri_bo_unmap with a vma that holds no mapping.  Without staging
\* hbm_bo_unmap runs on res->bo all the same; with staging vma->priv is not a
\* staging bo and its use is undefined: the call crashes or returns.
DriBoUnmapUnmapped(v, crash) ==
    LET r == dri_bo_unmap(hRes, [FreshVma EXCEPT !.priv = FALSE], hReal,
                          hDirect, [polls |-> <<PollTimeout>>, copy_ok |-> TRUE,
                                    partial |-> "A"])
    IN  /\ backend = "hbm" /\ Alive
        /\ hPriv = "res"
        /\ ~hVma[v].live
        /\ crash => hRes.staging_size # 0
        /\ hLast' = [NoLast EXCEPT
                        !.op = "unmap", !.rc = r.ret,
                        !.ret = IF crash THEN "crash" ELSE "none",
                        !.busy = FALSE, !.released = ~crash]
        /\ hDirect' = IF crash THEN hDirect ELSE r.direct
        /\ UNCHANGED <<pureVars, ownVars, backend, dmabufVars, hPriv, hRes, hMeta, hVma, hReal,
                       hWritten>>

\* dri_bo_release (hbm_free) followed by the caller dropping the bo
DriBoRelease ==
    /\ backend = "hbm" /\ Alive
    /\ hPriv = "res"
    /\ \A v \in 1 .. MaxVma : ~hVma[v].live
    /\ hPriv' = "null"
    /\ hRes' = NULL
    /\ hMeta' = NoMeta
    /\ hReal' = <<>>
    /\ hDirect' = 0
    /\ hWritten' = FALSE
    /\ hLast' = [NoLast EXCEPT !.op = "release"]
    /\ UNCHANGED <<pureVars, ownVars, backend, dmabufVars, hVma>>

\* the requests made of the dma-buf backend: formats in and out of the
\* supported list, use flags in and out of the recognized groups
DmabufFormats == {DRM_FORMAT_R8, "NV12", "P010"}

DmabufUseBits ==
    {"SW_READ_OFTEN", "SCANOUT", "CAMERA_WRITE", "HW_VIDEO_DECODER", "TEXTURE",
     "LINEAR", "PROTECTED"}

DmabufUseSets == {u \in SUBSET DmabufUseBits : Cardinality(u) <= MaxUseBits}

DmabufHeaps ==
    {[system |-> FALSE, uncached |-> FALSE, cma |-> FALSE],
     [system |-> TRUE, uncached |-> FALSE, cma |-> FALSE],
     [system |-> TRUE, uncached |-> TRUE, cma |-> TRUE]}

\* dmabuf_bo_create2 on a new bo, 4 x 2 pixels
DmabufBoCreate2(format, use_flags, test_only, env) ==
    /\ backend = "dmabuf"
    /\ dBo.priv = NULL
    /\ dAllocs < MaxAllocs
    /\ \E r \in {dmabuf_bo_create2(dDrv, NoDmabufBo, 4, 2, format, use_flags,
                                   test_only, env)} :
        /\ dDrv' = r.drv_priv
        /\ dBo' = r.bo
        /\ dAllocs' = IF r.alloc # NULL THEN dAllocs + 1 ELSE dAllocs
        /\ dLast' = [NoDmabufLast EXCEPT
                        !.op = "create2", !.ret = r.ret, !.format = format,
                        !.use_flags = use_flags, !.test_only = test_only,
                        !.alloc = r.alloc]
    /\ UNCHANGED <<pureVars, ownVars, backend, hbmVars, dVma>>

\* dmabuf_bo_import of a one-plane buffer
DmabufBoImport ==
    /\ backend = "dmabuf"
    /\ \A v \in 1 .. MaxVma : ~dVma[v]
    /\ \E r \in {dmabuf_bo_import(dBo, drv_bo_from_format(4, 2, DRM_FORMAT_R8))} :
        /\ dBo' = r.bo
        /\ dLast' = [NoDmabufLast EXCEPT !.op = "import", !.ret = r.ret]
    /\ UNCHANGED <<pureVars, ownVars, backend, hbmVars, dDrv, dVma, dAllocs>>

DmabufBoDestroy ==
    /\ backend = "dmabuf"
    /\ dBo.priv # NULL
    /\ \A v \in 1 .. MaxVma : ~dVma[v]
    /\ dBo' = NoDmabufBo
    /\ dLast' = [NoDmabufLast EXCEPT
                    !.op = "destroy", !.ret = dmabuf_bo_destroy(dBo).ret]
    /\ UNCHANGED <<pureVars, ownVars, backend, hbmVars, dDrv, dVma, dAllocs>>

\* dmabuf_bo_map through vma v, which the caller has just allocated
DmabufBoMap(v, map_flags, env) ==
    /\ backend = "dmabuf"
    /\ dBo.priv # NULL
    /\ ~dVma[v]
    /\ \E r \in {dmabuf_bo_map(dBo, map_flags, env)} :
        /\ dVma' = [dVma EXCEPT ![v] = r.ret = "ptr"]
        /\ dLast' = [NoDmabufLast EXCEPT
                        !.op = "map", !.ptr = r.ret,
                        !.busy = \E w \in 1 .. MaxVma : dVma[w],
                        !.sync = r.sync]
    /\ UNCHANGED <<pureVars, ownVars, backend, hbmVars, dDrv, dBo, dAllocs>>

\* dmabuf_bo_unmap of vma v, mapped or not.  munmap fails only on a range it
\* cannot take for one, which the range of a mapping made by mmap is not.
DmabufBoUnmap(v, env) ==
    /\ backend = "dmabuf"
    /\ dBo.priv # NULL
    /\ dVma[v] => env.munmap_ret = 0
    /\ \E r \in {dmabuf_bo_unmap(dBo, env)} :
        /\ dVma' = [dVma EXCEPT ![v] = FALSE]
        /\ dLast' = [NoDmabufLast EXCEPT
                        !.op = "unmap", !.ret = r.ret, !.busy = dVma[v],
                        !.sync = r.sync, !.munmap = r.munmap]
    /\ UNCHANGED <<pureVars, ownVars, backend, hbmVars, dDrv, dBo, dAllocs>>

DmabufBoFlush ==
    /\ backend = "dmabuf"
    /\ dBo.priv # NULL
    /\ \E v \in 1 .. MaxVma : dVma[v]
    /\ \E r \in {dmabuf_bo_flush(dBo)} :
        dLast' = [NoDmabufLast EXCEPT
                     !.op = "flush", !.ret = r.ret, !.busy = TRUE,
                     !.sync = r.sync]
    /\ UNCHANGED <<pureVars, ownVars, backend, hbmVars, dDrv, dBo, dVma, dAllocs>>

Init ==
    /\ MoreIdle
    /\ backend \in {"hbm", "dmabuf"}
    /\ LifeIdle
    /\ OwnIdle
    /\ pIn = NoCall /\ pOut = NoCall /\ aReq = NoCall /\ aOut = NoCall
    /\ rIn = NoCall /\ rOut = NoCall /\ cIn = NoCall /\ cOut = NoCall

Next ==
    \/ /\ backend = "hbm" /\ hPriv = "null"
       /\ \E use_flags \in LifeUses, shape \in AllocShapes,
             has_linear \in BOOLEAN, layout_modifier \in Modifiers,
             fail \in FailSites \ {"dup"}, new_fd \in NewFds,
             prime_ok \in BOOLEAN :
          /\ layout_modifier \in
                 LayoutModifiers(init_description(
                     shape[1], DRM_FORMAT_MOD_INVALID,
                     IF use_flags = {} THEN {"TEXTURE"} ELSE use_flags,
                     has_linear), <<>>)
          /\ DriBoCreate(use_flags, shape, <<>>,
                         [has_linear |-> has_linear,
                          layout_modifier |-> layout_modifier,
                          mts |-> LifeMts, fail |-> fail], new_fd, prime_ok)
    \/ \E v \in 1 .. MaxVma, map_flags \in MapFlagSets :
          /\ hRes # NULL
          /\ \A w \in 1 .. v - 1 : hVma[w].live
          /\ \E preset \in IF map_flags = {"READ", "WRITE"} /\ hRes.use_sw
                           THEN BOOLEAN ELSE {FALSE},
                env \in MapEnvs(hRes, "READ" \in map_flags)
                        \cup MapFailEnvs(hRes) :
                 DriBoMap(v, map_flags, preset, env)
    \/ \E v \in 1 .. MaxVma, p \in 1 .. DRV_MAX_PLANES, d \in Data :
          ClientWrite(v, p, d)
    \/ \E v \in 1 .. MaxVma :
          /\ hRes # NULL
          /\ \E env \in UnmapEnvs(hRes, "WRITE" \in hVma[v].map_flags) :
                 DriBoUnmap(v, env)
    \/ \E v \in 1 .. MaxVma, crash \in BOOLEAN : DriBoUnmapUnmapped(v, crash)
    \/ DriBoRelease
    \/ /\ backend = "dmabuf" /\ dBo.priv = NULL
       /\ \E format \in DmabufFormats, use_flags \in DmabufUseSets,
             test_only \in BOOLEAN, alloc_errno \in {0, ENOMEM} :
             \E heaps \in IF dDrv = NULL THEN DmabufHeaps
                          ELSE {[system |-> TRUE, uncached |-> TRUE,
                                 cma |-> TRUE]} :
                 DmabufBoCreate2(format, use_flags, test_only,
                                 [heaps |-> heaps, alloc_errno |-> alloc_errno])
    \/ DmabufBoImport
    \/ DmabufBoDestroy
    \/ \E v \in 1 .. MaxVma, map_flags \in MapFlagSets, mmap_ok \in BOOLEAN :
          /\ \A w \in 1 .. v - 1 : dVma[w]
          /\ DmabufBoMap(v, map_flags, [mmap_ok |-> mmap_ok])
    \/ \E v \in 1 .. MaxVma, sync_ok \in BOOLEAN, munmap_ret \in {0, -1} :
          DmabufBoUnmap(v, [sync_ok |-> sync_ok, munmap_ret |-> munmap_ret])
    \/ DmabufBoFlush

Spec == Init /\ [][Next]_vars

(***************************************************************************)
(* SpecPick: pick_memory_type applied to bounded inputs.                   *)
(***************************************************************************)

UseSets(n) == {u \in SUBSET HbmUseBits : Cardinality(u) <= n}


InitPick ==
    /\ MoreIdle
    /\ pIn \in [use_flags : UseSets(MaxUseBits), mts : MtLists(MaxMts)]
    /\ pOut = NoCall
    /\ aReq = NoCall
    /\ aOut = NoCall
    /\ rIn = NoCall /\ rOut = NoCall /\ cIn = NoCall /\ cOut = NoCall
    /\ backend = "none"
    /\ LifeIdle
    /\ OwnIdle

ApplyPick(modifier, mts_ok) ==
    /\ pOut = NoCall
    /\ pOut' = [called |-> TRUE, modifier |-> modifier, mts_ok |-> mts_ok,
                ret |-> pick_memory_type(modifier, pIn.use_flags, pIn.mts,
                                         mts_ok)]
    /\ UNCHANGED <<pIn, aReq, aOut, rIn, rOut, cIn, cOut, ownVars, moreVars, backend,
                   hbmVars,
                   dmabufVars>>

NextPick ==
    \E modifier \in Modifiers, mts_ok \in BOOLEAN : ApplyPick(modifier, mts_ok)

SpecPick == InitPick /\ [][NextPick]_vars

(***************************************************************************)
(* SpecAlloc: hbm_allocate applied to bounded requests and devices.        *)
(***************************************************************************)

AllocMods == {<<>>, <<DRM_FORMAT_MOD_LINEAR>>, <<MOD_TILED>>}

InitAlloc ==
    /\ MoreIdle
    /\ aReq \in [use_flags : UseSets(MaxUseBits), shape : AllocShapes,
                 mods : AllocMods, mts : AllocMtLists(MaxAllocMts)]
    /\ aOut = NoCall
    /\ pIn = NoCall
    /\ pOut = NoCall
    /\ rIn = NoCall /\ rOut = NoCall /\ cIn = NoCall /\ cOut = NoCall
    /\ backend = "none"
    /\ LifeIdle
    /\ OwnIdle

ApplyAllocate(has_linear, layout_modifier, fail) ==
    LET dev == [has_linear |-> has_linear, layout_modifier |-> layout_modifier,
                mts |-> aReq.mts, fail |-> fail]
        desc_mod == IF Len(aReq.mods) = 1 THEN aReq.mods[1]
                    ELSE DRM_FORMAT_MOD_INVALID
        desc == init_description(aReq.shape[1], desc_mod, aReq.use_flags,
                                 has_linear)
    IN  /\ aOut = NoCall
        /\ fail # "dup"
        /\ layout_modifier \in LayoutModifiers(desc, aReq.mods)
        /\ aOut' = [called |-> TRUE, has_linear |-> has_linear, fail |-> fail,
                    ret |-> hbm_allocate(aReq.shape[2], aReq.shape[3],
                                         aReq.shape[1], aReq.use_flags,
                                         aReq.mods, dev)]
        /\ UNCHANGED <<aReq, pIn, pOut, rIn, rOut, cIn, cOut, ownVars, moreVars, backend,
                   hbmVars,
                       dmabufVars>>

NextAlloc ==
    \E has_linear \in BOOLEAN, layout_modifier \in Modifiers, fail \in FailSites :
        ApplyAllocate(has_linear, layout_modifier, fail)

SpecAlloc == InitAlloc /\ [][NextAlloc]_vars

(***************************************************************************)
(* SpecResolve: dmabuf_resolve_format_and_use_flags applied to bounded     *)
(* inputs, and applied again to its own result.                            *)
(***************************************************************************)
ResolveFormats ==
    supported_formats
    \cup {DRM_FORMAT_FLEX_IMPLEMENTATION_DEFINED, DRM_FORMAT_FLEX_YCbCr_420_888,
          "BGR565", "P010", DRM_FORMAT_INVALID}

ResolveUseBits ==
    {"CAMERA_READ", "CAMERA_WRITE", "SW_READ_OFTEN", "SCANOUT", "TEXTURE",
     "HW_VIDEO_DECODER", "LINEAR"}

InitResolve ==
    /\ MoreIdle
    /\ rIn \in [format : ResolveFormats,
                use_flags : {u \in SUBSET ResolveUseBits :
                                 Cardinality(u) <= MaxUseBits}]
    /\ rOut = NoCall
    /\ pIn = NoCall /\ pOut = NoCall /\ aReq = NoCall /\ aOut = NoCall
    /\ cIn = NoCall /\ cOut = NoCall
    /\ backend = "none"
    /\ LifeIdle
    /\ OwnIdle

ApplyResolve ==
    /\ rOut = NoCall
    /\ rOut' = [called |-> TRUE, calls |-> 1,
                ret |-> dmabuf_resolve_format_and_use_flags(rIn.format,
                                                            rIn.use_flags)]
    /\ UNCHANGED <<rIn, pIn, pOut, aReq, aOut, cIn, cOut, ownVars, moreVars, backend,
                   hbmVars,
                   dmabufVars>>

\* the caller resolves the resolved request once more
ApplyResolveAgain ==
    /\ rOut # NoCall /\ rOut.calls = 1
    /\ rOut' = [called |-> TRUE, calls |-> 2, first |-> rOut.ret,
                ret |-> dmabuf_resolve_format_and_use_flags(rOut.ret.format,
                                                            rOut.ret.use_flags)]
    /\ UNCHANGED <<rIn, pIn, pOut, aReq, aOut, cIn, cOut, ownVars, moreVars, backend,
                   hbmVars,
                   dmabufVars>>

NextResolve == ApplyResolve \/ ApplyResolveAgain

SpecResolve == InitResolve /\ [][NextResolve]_vars

(***************************************************************************)
(* SpecOwn: the objects and descriptors of one bo, through the hbm glue    *)
(* (backend "hbm") and through the DRI image path of dri.c (backend        *)
(* "dri").                                                                 *)
(***************************************************************************)
MaxReimports == 2
MaxStagings == 2

\* device-only, CPU through direct mapping, CPU through staging
OwnUses ==
    {{"TEXTURE"}, {"SW_READ_OFTEN", "SW_WRITE_OFTEN"},
     {"TEXTURE", "SW_READ_RARELY", "SW_WRITE_RARELY"}}

\* a device with and without a mappable memory type
OwnMts == {LifeMts, <<HBM_MEMORY_TYPE_LOCAL>>}

\* the plane offsets and the backing size of an imported two-plane buffer
\* whose planes hold 8 and 4 bytes: in order, swapped, and a backing buffer
\* that ends before the second plane
OwnOffsets == {<<0, 8, 0, 0>>, <<4, 0, 0, 0>>}
OwnSizes == {12, 4}

\* hbm.c 838-845: the re-import that ends dri_bo_create_with_modifiers and
\* dri_bo_import.  res: what hbm_allocate / hbm_import returned; import_fd:
\* -1 or import_data->fds[0]; fds: the descriptor table after that call.
OwnFinish(op, res, meta, import_fd, fds, new_ok, prime_ok) ==
    LET dups == new_ok /\ (import_fd < 0 \/ res.use_sw)
        objs1 == Made(Made(oObjs, "bo"), "res")
    IN  \E r \in {hbm_reimport_to_driver(res, import_fd,
                                         IF new_ok THEN NextFd(fds) ELSE -1,
                                         prime_ok)} :
        \E fds1 \in {CloseFds(IF dups
                              THEN OpenFd(fds, IF import_fd < 0 THEN "export"
                                               ELSE "dup")
                              ELSE fds,
                              r.closed)} :
        \E fr \in {hbm_free(r.res, fds1, objs1)} :
            IF r.handle = 0
            THEN /\ oObjs' = fr.objs
                 /\ oFds' = fr.fds
                 /\ oBo' = [oBo EXCEPT !.priv = "freed", !.meta = meta]
                 /\ oLast' = [op |-> op, ret |-> -1, step |-> "reimport"]
            ELSE /\ oObjs' = Made(objs1, "handle")
                 /\ oFds' = fds1
                 /\ oBo' = [oBo EXCEPT !.priv = "res", !.res = r.res,
                                       !.handle = r.handle, !.meta = meta,
                                       !.reimports = 1]
                 /\ oLast' = [op |-> op, ret |-> 0, step |-> "none"]

\* hbm.c 823-848, dri_bo_create_with_modifiers
OwnBoCreate(use_flags, mts, fail, new_ok, prime_ok) ==
    LET desc == init_description(DRM_FORMAT_R8, DRM_FORMAT_MOD_INVALID,
                                 use_flags, TRUE)
        dev == [has_linear |-> TRUE,
                layout_modifier |-> IF desc.modifier # DRM_FORMAT_MOD_INVALID
                                    THEN desc.modifier ELSE MOD_TILED,
                mts |-> mts, fail |-> fail]
    IN  /\ oBo.priv = "null"
        /\ fail # "dup"
        /\ \E a \in {hbm_allocate(4, 1, DRM_FORMAT_R8, use_flags, <<>>, dev)} :
               /\ a.err # "abort"
               /\ IF a.res = NULL
                  THEN /\ oObjs' = IF a.err = "bo_create" THEN oObjs
                                   ELSE Released(Made(oObjs, "bo"), "bo")
                       /\ oLast' = [op |-> "create", ret |-> -1,
                                    step |-> a.err]
                       /\ UNCHANGED <<oBo, oFds>>
                  ELSE OwnFinish("create", a.res, a.meta, -1, oFds, new_ok,
                                 prime_ok)
        /\ UNCHANGED <<pureVars, backend, hbmVars, dmabufVars>>

\* hbm.c 850-873, dri_bo_import, past the drv_prime_bo_import shortcut
OwnBoImport(use_flags, offsets, size, mts, fail, new_ok, prime_ok) ==
    LET data == [format |-> "NV12", format_modifier |-> DRM_FORMAT_MOD_LINEAR,
                 use_flags |-> use_flags, width |-> 4, height |-> 2,
                 fds |-> <<ImportFd, ImportFd, -1, -1>>,
                 offsets |-> offsets, strides |-> <<4, 4, 0, 0>>]
        dev == [has_linear |-> TRUE, size |-> size, mts |-> mts, fail |-> fail]
    IN  /\ oBo.priv = "null"
        /\ \E i \in {hbm_import(data, dev)} :
           \E fds1 \in {IF i.dupped
                        THEN BindFd(OpenFd(oFds, "dup"), NextFd(oFds))
                        ELSE IF i.bound THEN BindFd(oFds, data.fds[1])
                        ELSE oFds} :
               /\ i.err # "abort"
               /\ IF i.res = NULL
                  THEN /\ oObjs' = IF i.bo_made
                                   THEN Released(Made(oObjs, "bo"), "bo")
                                   ELSE oObjs
                       /\ oFds' = fds1
                       /\ oLast' = [op |-> "import", ret |-> -1,
                                    step |-> i.err]
                       /\ UNCHANGED oBo
                  ELSE OwnFinish("import", i.res, i.meta, data.fds[1], fds1,
                                 new_ok, prime_ok)
        /\ UNCHANGED <<pureVars, backend, hbmVars, dmabufVars>>

\* hbm.c 552-590, hbm_reimport_to_driver called once more on the resource;
\* with_data: import_data is given.  drmPrimeFDToHandle names the same GEM
\* handle each time.
OwnReimport(with_data, new_ok, prime_ok) ==
    LET dups == new_ok /\ (~with_data \/ oBo.res.use_sw)
        r == hbm_reimport_to_driver(oBo.res,
                                    IF with_data THEN ImportFd ELSE -1,
                                    IF new_ok THEN NextFd(oFds) ELSE -1,
                                    prime_ok)
    IN  /\ oBo.priv = "res"
        /\ oBo.reimports < MaxReimports
        /\ oFds' = CloseFds(IF dups
                            THEN OpenFd(oFds, IF with_data THEN "dup"
                                              ELSE "export")
                            ELSE oFds,
                            r.closed)
        /\ oBo' = [oBo EXCEPT !.res = r.res, !.reimports = @ + 1]
        /\ oLast' = [op |-> "reimport", ret |-> r.handle, step |-> "none"]
        /\ UNCHANGED <<oObjs, pureVars, backend, hbmVars, dmabufVars>>

\* a plausible slip: the staging bo is not destroyed when binding fails
OwnMap_bind_failure_keeps_staging(map_fail) ==
    LET m == hbm_map(oBo.res, oBo.vma, oBo.direct,
                     [map_fail |-> map_fail, garbage |-> <<>>])
        staged == oBo.res.staging_size # 0
    IN  /\ oBo.priv = "res"
        /\ ~oBo.vma.live
        /\ oObjs["staging"].made < MaxStagings
        /\ staged \/ map_fail \in {"none", "map"}
        /\ oBo' = [oBo EXCEPT !.vma = [m.vma EXCEPT !.live = m.ptr],
                              !.direct = m.direct]
        /\ oObjs' = IF ~staged \/ map_fail = "create" THEN oObjs
                    ELSE IF map_fail \in {"none", "bind"}
                    THEN Made(oObjs, "staging")
                    ELSE Released(Made(oObjs, "staging"), "staging")
        /\ oLast' = [op |-> "map", ret |-> IF m.ptr THEN 0 ELSE -1,
                     step |-> map_fail]
        /\ UNCHANGED <<oFds, pureVars, backend, hbmVars, dmabufVars>>

\* hbm.c 646-668, hbm_map through the one vma of this specification
OwnMap(map_fail) ==
    LET m == hbm_map(oBo.res, oBo.vma, oBo.direct,
                     [map_fail |-> map_fail, garbage |-> <<>>])
        staged == oBo.res.staging_size # 0
    IN  /\ oBo.priv = "res"
        /\ ~oBo.vma.live
        /\ oObjs["staging"].made < MaxStagings
        /\ staged \/ map_fail \in {"none", "map"}
        /\ oBo' = [oBo EXCEPT !.vma = [m.vma EXCEPT !.live = m.ptr],
                              !.direct = m.direct]
        /\ oObjs' = IF ~staged \/ map_fail = "create" THEN oObjs
                    ELSE IF map_fail = "none" THEN Made(oObjs, "staging")
                    ELSE Released(Made(oObjs, "staging"), "staging")
        /\ oLast' = [op |-> "map", ret |-> IF m.ptr THEN 0 ELSE -1,
                     step |-> map_fail]
        /\ UNCHANGED <<oFds, pureVars, backend, hbmVars, dmabufVars>>

\* hbm.c 670-680, hbm_unmap of the mapping held by the vma
OwnUnmap ==
    LET u == hbm_unmap(oBo.res, oBo.vma, oBo.direct)
    IN  /\ oBo.priv = "res"
        /\ oBo.vma.live
        /\ oBo' = [oBo EXCEPT !.vma = [u.vma EXCEPT !.live = FALSE],
                              !.direct = u.direct]
        /\ oObjs' = IF oBo.res.staging_size # 0
                    THEN Released(oObjs, "staging") ELSE oObjs
        /\ oLast' = [op |-> "unmap", ret |-> 0, step |-> "none"]
        /\ UNCHANGED <<oFds, pureVars, backend, hbmVars, dmabufVars>>

\* hbm.c 875-880, dri_bo_release; bo->priv keeps pointing at the freed
\* resource
OwnBoRelease ==
    LET fr == hbm_free(oBo.res, oFds, oObjs)
    IN  /\ oBo.priv = "res"
        /\ oFds' = fr.fds
        /\ oObjs' = fr.objs
        /\ oBo' = [oBo EXCEPT !.priv = "freed"]
        /\ oLast' = [op |-> "release", ret |-> 0, step |-> "none"]
        /\ UNCHANGED <<pureVars, backend, hbmVars, dmabufVars>>

\* hbm.c 882-886, dri_bo_destroy, which the framework calls after release
OwnBoDestroy ==
    /\ oBo.priv = "freed"
    /\ oLast.op = "release"
    /\ oObjs' = Released(oObjs, "handle")
    /\ oBo' = [oBo EXCEPT !.handle = 0]
    /\ oLast' = [op |-> "destroy", ret |-> 0, step |-> "none"]
    /\ UNCHANGED <<oFds, pureVars, backend, hbmVars, dmabufVars>>

\* the answers of the driver and the kernel to one call of dri.c: step names
\* the one step that fails ("none": none does)
DriSteps ==
    {"none", "entry", "image", "num_planes", "fd", "lseek", "prime", "plane1",
     "plane2"}

DriEnv(step, errno, planar, offsets, size) ==
    [has_entry |-> step # "entry", image_ok |-> step # "image",
     modifier_ok |-> TRUE, modifier |-> DRM_FORMAT_MOD_LINEAR,
     num_planes_ok |-> step # "num_planes", num_planes |-> 2,
     fd_ok |-> step # "fd", size |-> IF step = "lseek" THEN -1 ELSE size,
     prime_ok |-> step # "prime",
     planes |-> <<[planar |-> planar, ok |-> step # "plane1", stride |-> 4,
                   offset |-> offsets[1]],
                  [planar |-> planar, ok |-> step # "plane2", stride |-> 4,
                   offset |-> offsets[2]]>>,
     errno |-> errno]

DriEntries == {"create", "create_with_modifiers", "import_with_modifier",
               "import_from_fds"}

\* dri.c 270-381: dri_bo_create, dri_bo_create_with_modifiers, dri_bo_import
OwnImageCreate(entry, env) ==
    LET d == dri_bo_create(entry, env)
    IN  /\ oBo.priv = "null"
        /\ oObjs' = ApplyEvents(oObjs, d.events)
        /\ oBo' = [oBo EXCEPT !.priv = d.priv, !.handle = d.handle,
                              !.meta = d.meta]
        /\ oLast' = [op |-> entry, ret |-> d.ret, step |-> d.step]
        /\ UNCHANGED <<oFds, pureVars, backend, hbmVars, dmabufVars>>

\* dri.c 383-389, dri_bo_release
OwnImageRelease ==
    /\ oBo.priv = "image"
    /\ oObjs' = Released(oObjs, "image")
    /\ oBo' = [oBo EXCEPT !.priv = "released"]
    /\ oLast' = [op |-> "release", ret |-> 0, step |-> "none"]
    /\ UNCHANGED <<oFds, pureVars, backend, hbmVars, dmabufVars>>

\* dri.c 391-397, dri_bo_destroy, which the framework calls after release
OwnImageDestroy ==
    /\ oBo.priv = "released"
    /\ oObjs' = Released(oObjs, "handle")
    /\ oBo' = [oBo EXCEPT !.priv = "null", !.handle = 0]
    /\ oLast' = [op |-> "destroy", ret |-> 0, step |-> "none"]
    /\ UNCHANGED <<oFds, pureVars, backend, hbmVars, dmabufVars>>

InitOwn ==
    /\ MoreIdle
    /\ backend \in {"hbm", "dri"}
    /\ OwnIdle
    /\ LifeIdle
    /\ pIn = NoCall /\ pOut = NoCall /\ aReq = NoCall /\ aOut = NoCall
    /\ rIn = NoCall /\ rOut = NoCall /\ cIn = NoCall /\ cOut = NoCall

NextOwn ==
    \/ /\ backend = "hbm" /\ oBo.priv = "null" /\ oLast.op = "none"
       /\ \E use_flags \in OwnUses, mts \in OwnMts, fail \in FailSites,
             new_ok \in BOOLEAN, prime_ok \in BOOLEAN :
              OwnBoCreate(use_flags, mts, fail, new_ok, prime_ok)
    \/ /\ backend = "hbm" /\ oBo.priv = "null" /\ oLast.op = "none"
       /\ \E use_flags \in OwnUses, offsets \in OwnOffsets,
             size \in OwnSizes \cup {-1}, mts \in OwnMts, fail \in FailSites,
             new_ok \in BOOLEAN, prime_ok \in BOOLEAN :
              OwnBoImport(use_flags, offsets, size, mts, fail, new_ok, prime_ok)
    \/ /\ backend = "hbm"
       /\ \E with_data \in BOOLEAN, new_ok \in BOOLEAN, prime_ok \in BOOLEAN :
              OwnReimport(with_data, new_ok, prime_ok)
    \/ /\ backend = "hbm"
       /\ \E map_fail \in {"none", "create", "bind", "map"} : OwnMap(map_fail)
    \/ backend = "hbm" /\ OwnUnmap
    \/ backend = "hbm" /\ OwnBoRelease
    \/ backend = "hbm" /\ OwnBoDestroy
    \/ /\ backend = "dri" /\ oBo.priv = "null" /\ oLast.op = "none"
       /\ \E entry \in DriEntries, step \in DriSteps, errno \in {0, EINVAL},
             planar \in BOOLEAN, offsets \in OwnOffsets, size \in OwnSizes :
              OwnImageCreate(entry, DriEnv(step, errno, planar, offsets, size))
    \/ backend = "dri" /\ OwnImageRelease
    \/ backend = "dri" /\ OwnImageDestroy

SpecOwn == InitOwn /\ [][NextOwn]_vars

(***************************************************************************)
(* SpecCreate2: dmabuf_bo_create2 applied to bounded requests on a driver  *)
(* that is not initialised yet.                                            *)
(***************************************************************************)
\* width and height of the requests
Create2Shapes == {<<4, 1>>, <<4, 2>>, <<64, 64>>, <<256, 2>>}

Create2UseBits ==
    {"SCANOUT", "CAMERA_READ", "CAMERA_WRITE", "HW_VIDEO_DECODER",
     "HW_VIDEO_ENCODER", "SW_READ_OFTEN", "TEXTURE", "LINEAR"}

\* which of /dev/dma_heap/system, system-uncached and linux,cma open
Create2Heaps == [system : BOOLEAN, uncached : BOOLEAN, cma : BOOLEAN]

InitCreate2 ==
    /\ MoreIdle
    /\ cIn \in [shape : Create2Shapes, format : DmabufFormats,
                use_flags : {u \in SUBSET Create2UseBits :
                                 Cardinality(u) <= MaxUseBits},
                heaps : Create2Heaps]
    /\ cOut = NoCall
    /\ pIn = NoCall /\ pOut = NoCall /\ aReq = NoCall /\ aOut = NoCall
    /\ rIn = NoCall /\ rOut = NoCall
    /\ backend = "none"
    /\ LifeIdle
    /\ OwnIdle

ApplyCreate2(test_only, alloc_errno) ==
    /\ cOut = NoCall
    /\ cOut' = [called |-> TRUE, test_only |-> test_only,
                ret |-> dmabuf_bo_create2(NULL, NoDmabufBo, cIn.shape[1],
                                          cIn.shape[2], cIn.format,
                                          cIn.use_flags, test_only,
                                          [heaps |-> cIn.heaps,
                                           alloc_errno |-> alloc_errno])]
    /\ UNCHANGED <<cIn, pIn, pOut, aReq, aOut, rIn, rOut, ownVars, moreVars, backend,
                   hbmVars, dmabufVars>>

NextCreate2 ==
    \E test_only \in BOOLEAN, alloc_errno \in {0, ENOMEM} :
        ApplyCreate2(test_only, alloc_errno)

SpecCreate2 == InitCreate2 /\ [][NextCreate2]_vars

(***************************************************************************)
(* The size computations on requests whose sizes do not fit 16 bits        *)
(* (SpecWide).  width, height, stride, size_align and the staging offset   *)
(* are uint32_t in the code.  A 32-bit word is written here as the pair    *)
(* <<hi, lo>> of its 16-bit halves, value hi * 2^16 + lo, and every        *)
(* operation is reduced modulo 2^32 as the C arithmetic reduces it; a      *)
(* second operator says whether the unreduced result fits the word.        *)
(***************************************************************************)
Half == 65536

\* the halves of hi * 2^16 + lo, the upper one not reduced
W(hi, lo) == <<hi + (lo \div Half), lo % Half>>

\* conversion to uint32_t
U32(w) == <<w[1] % Half, w[2]>>

Fits32(w) == w[1] < Half

WAdd(a, b) == W(a[1] + b[1], a[2] + b[2])

\* the product of two 16-bit halves, not reduced
WProd16(x, y) ==
    LET t1 == (x \div 256) * y
        t0 == (x % 256) * y
    IN  W((t1 \div 256) + (t0 \div Half), (t1 % 256) * 256 + (t0 % Half))

\* a + b in uint32_t
Add32(a, b) == U32(WAdd(a, b))

AddFits32(a, b) == Fits32(WAdd(a, b))

\* a * b in uint32_t
Mul32(a, b) ==
    LET p == WProd16(a[2], b[2])
        m == WProd16(a[1], b[2])[2] + WProd16(a[2], b[1])[2]
    IN  U32(W(p[1] + m, p[2]))

MulFits32(a, b) ==
    /\ a[1] = 0 \/ b[1] = 0
    /\ WAdd(WAdd(WProd16(a[1], b[2]), WProd16(a[2], b[1])),
            <<0, WProd16(a[2], b[2])[1]>>)[1] = 0

\* a >> 1 in uint32_t
Shr1(a) == <<a[1] \div 2, (a[2] + (a[1] % 2) * Half) \div 2>>

\* ALIGN(a, k) in uint32_t, for the powers of two k the code passes
ALIGN32(a, k) ==
    LET x == Add32(a, <<0, k - 1>>)
    IN  <<x[1], x[2] - (x[2] % k)>>

ALIGNFits32(a, k) == AddFits32(a, <<0, k - 1>>)

\* drv_stride_from_format(format, width, plane) in uint32_t
stride32(format, width, plane) ==
    LET l == planar_layout(format)
        hsub == l.hsub[plane + 1]
        plane_width == IF hsub = 1 THEN width ELSE Shr1(Add32(width, <<0, 1>>))
        stride == Mul32(plane_width, <<0, l.bpp[plane + 1]>>)
    IN  IF format = "YVU420_ANDROID"
        THEN IF plane = 0 THEN ALIGN32(stride, 32) ELSE ALIGN32(stride, 16)
        ELSE stride

stride32_fits(format, width, plane) ==
    LET l == planar_layout(format)
        hsub == l.hsub[plane + 1]
        plane_width == IF hsub = 1 THEN width ELSE Shr1(Add32(width, <<0, 1>>))
    IN  /\ hsub = 1 \/ AddFits32(width, <<0, 1>>)
        /\ MulFits32(plane_width, <<0, l.bpp[plane + 1]>>)

\* the rows of a plane: DIV_ROUND_UP(height, vsub)
rows32(format, height, plane) ==
    IF planar_layout(format).vsub[plane + 1] = 1 THEN height
    ELSE Shr1(Add32(height, <<0, 1>>))

\* drv_size_from_format(format, stride, height, plane) in uint32_t
size32(format, stride, height, plane) ==
    Mul32(stride, rows32(format, height, plane))

size32_fits(format, stride, height, plane) ==
    MulFits32(stride, rows32(format, height, plane))

\* dmabuf_bo_create2 up to the allocation request: the value it returns,
\* the stride and size_align it computed, and whether the unreduced stride
\* and camera frame size fit 32 bits
dmabuf_bo_create2_sizes(width, height, format, use_flags, test_only, alloc_errno) ==
    LET stride0 == stride32(format, width, 0)
        u1 == unmask64(use_flags, BO_USE_SW_MASK)
        u2 == unmask64(u1.value, {"SCANOUT"})
        u3 == unmask64(u2.value, BO_USE_CAMERA)
        u4 == unmask64(u3.value, BO_USE_HW_VIDEO)
        u5 == unmask64(u4.value, BO_USE_ANY_HEAP)
        camera == u3.hit /\ height # <<0, 0>> /\ height # <<0, 1>>
        aw == ALIGN32(width, 32)
        ah == ALIGN32(height, 16)
        stride == IF u3.hit \/ u4.hit THEN ALIGN32(stride0, 32) ELSE stride0
        size_align == IF u4.hit \/ ~camera THEN <<0, 4096>>
                      ELSE Shr1(Mul32(Mul32(aw, ah), <<0, 3>>))
        sizes == [stride |-> stride, size_align |-> size_align,
                  stride_fits |->
                      /\ stride32_fits(format, width, 0)
                      /\ (u3.hit \/ u4.hit) => ALIGNFits32(stride0, 32),
                  frame_fits |->
                      (camera /\ ~u4.hit)
                          => /\ ALIGNFits32(width, 32)
                             /\ ALIGNFits32(height, 16)
                             /\ MulFits32(aw, ah)
                             /\ MulFits32(Mul32(aw, ah), <<0, 3>>)]
    IN  IF ~is_format_supported(format) THEN [ret |-> -EINVAL, sizes |-> NULL]
        ELSE IF u5.value # {} THEN [ret |-> -EINVAL, sizes |-> NULL]
        ELSE IF test_only THEN [ret |-> 0, sizes |-> sizes]
        ELSE [ret |-> -alloc_errno, sizes |-> sizes]

\* the staging loop of create_resource for an image: the offset after the
\* planes before plane, the staging_offsets and plane sizes so far, and
\* whether the unreduced sum fits 32 bits
RECURSIVE staging_offset32(_, _, _, _)
staging_offset32(format, width, height, plane) ==
    IF plane = 0
    THEN [offset |-> <<0, 0>>, fits |-> TRUE, offsets |-> <<>>, sizes |-> <<>>]
    ELSE LET before == staging_offset32(format, width, height, plane - 1)
             stride == stride32(format, width, plane - 1)
             size == size32(format, stride, height, plane - 1)
         IN  [offset |-> Add32(before.offset, size),
              fits |-> /\ before.fits
                       /\ stride32_fits(format, width, plane - 1)
                       /\ size32_fits(format, stride, height, plane - 1)
                       /\ AddFits32(before.offset, size),
              offsets |-> Append(before.offsets, before.offset),
              sizes |-> Append(before.sizes, size)]

\* offset is what create_resource leaves in res->staging_size
staging_size32(format, width, height) ==
    staging_offset32(format, width, height, drv_num_planes_from_format(format))

\* 640, 2^15, 2^16, 2^30 and 2^32 - 16
WideWidths == {<<0, 640>>, <<0, 32768>>, <<1, 0>>, <<16384, 0>>, <<65535, 65520>>}

\* 1, 480, 3 * 2^14 and 2^16
WideHeights == {<<0, 1>>, <<0, 480>>, <<0, 49152>>, <<1, 0>>}

WideFormats == {DRM_FORMAT_R8, "NV12", "YVU420", "ARGB8888", "P010"}

WideUses == {{}, {"CAMERA_WRITE"}, {"HW_VIDEO_DECODER"}, {"LINEAR"}}

InitWide ==
    /\ wIn \in [width : WideWidths, height : WideHeights, format : WideFormats,
                use_flags : WideUses]
    /\ wOut = NoCall
    /\ RaceIdle
    /\ StagingIdle
    /\ WaitVarsIdle
    /\ BracketIdle
    /\ PureIdle
    /\ LateIdle
    /\ backend = "none"
    /\ LifeIdle
    /\ OwnIdle

ApplyCreate2Sizes(test_only, alloc_errno) ==
    /\ wOut = NoCall
    /\ wOut' = [called |-> TRUE, op |-> "dmabuf_bo_create2",
                test_only |-> test_only,
                out |-> dmabuf_bo_create2_sizes(wIn.width, wIn.height,
                                                wIn.format, wIn.use_flags,
                                                test_only, alloc_errno)]
    /\ UNCHANGED <<wIn, oldVars, raceVars, stagingVars, waitVars, bracketVars>>

ApplyStagingSize ==
    /\ wOut = NoCall
    /\ wIn.format \in supported_formats
    /\ wOut' = [called |-> TRUE, op |-> "create_resource",
                out |-> staging_size32(wIn.format, wIn.width, wIn.height)]
    /\ UNCHANGED <<wIn, oldVars, raceVars, stagingVars, waitVars, bracketVars>>

NextWide ==
    \/ \E test_only \in BOOLEAN, alloc_errno \in {0, ENOMEM} :
           ApplyCreate2Sizes(test_only, alloc_errno)
    \/ ApplyStagingSize

SpecWide == InitWide /\ [][NextWide]_vars

(***************************************************************************)
(* Two threads calling dmabuf_bo_create2 on different bos of one driver    *)
(* (SpecRace).  dmabuf_get_or_init_driver takes no lock, so the test of    *)
(* drv->priv, the opening of the heaps and the store to drv->priv of one   *)
(* call interleave with those of the other.  A context is numbered by the  *)
(* order of its construction; 0 stands for a null pointer.                 *)
(***************************************************************************)
Threads == 1 .. MaxThreads

RaceStart == [pc |-> "test", ctx |-> 0, ret |-> 0]

\* if (!drv->priv) ... else dmabuf_drv = priv->dmabuf_drv
RaceTest(t) ==
    /\ tProc[t].pc = "test"
    /\ tProc' = [tProc EXCEPT ![t] =
                     IF tPriv = 0 THEN [@ EXCEPT !.pc = "open"]
                     ELSE [@ EXCEPT !.pc = "create", !.ctx = tPriv]]
    /\ UNCHANGED <<tPriv, tCtxs, oldVars, wideVars, stagingVars, waitVars, bracketVars>>

\* make_unique<DmabufDriver>() and the three opens; without a system heap
\* the context is destroyed again and the call returns -EINVAL
RaceOpen(t, heaps) ==
    /\ tProc[t].pc = "open"
    /\ \E g \in {dmabuf_get_or_init_driver(NULL, heaps)} :
           IF g.drv = NULL
           THEN /\ tProc' = [tProc EXCEPT ![t] =
                                 [pc |-> "done", ctx |-> 0, ret |-> -EINVAL]]
                /\ UNCHANGED tCtxs
           ELSE /\ tCtxs' = Append(tCtxs, g.drv)
                /\ tProc' = [tProc EXCEPT ![t] =
                                 [@ EXCEPT !.pc = "store",
                                           !.ctx = Len(tCtxs) + 1]]
    /\ UNCHANGED <<tPriv, oldVars, wideVars, stagingVars, waitVars, bracketVars>>

\* priv = new DmabufDriverPriv(); priv->dmabuf_drv = dmabuf_drv;
\* drv->priv = priv
RaceStore(t) ==
    /\ tProc[t].pc = "store"
    /\ tPriv' = tProc[t].ctx
    /\ tProc' = [tProc EXCEPT ![t] = [@ EXCEPT !.pc = "create"]]
    /\ UNCHANGED <<tCtxs, oldVars, wideVars, stagingVars, waitVars, bracketVars>>

\* the rest of dmabuf_bo_create2, on the context the call obtained
RaceCreate(t) ==
    /\ tProc[t].pc = "create"
    /\ tProc' = [tProc EXCEPT ![t] = [@ EXCEPT !.pc = "done"]]
    /\ UNCHANGED <<tPriv, tCtxs, oldVars, wideVars, stagingVars, waitVars, bracketVars>>

InitRace ==
    /\ tPriv = 0
    /\ tCtxs = <<>>
    /\ tProc = [t \in Threads |-> RaceStart]
    /\ PureIdle
    /\ LateIdle
    /\ WideIdle
    /\ StagingIdle
    /\ WaitVarsIdle
    /\ BracketIdle
    /\ backend = "none"
    /\ LifeIdle
    /\ OwnIdle

NextRace ==
    \E t \in Threads :
        \/ RaceTest(t)
        \/ \E heaps \in DmabufHeaps : RaceOpen(t, heaps)
        \/ RaceStore(t)
        \/ RaceCreate(t)

SpecRace == InitRace /\ [][NextRace]_vars

(***************************************************************************)
(* hbm_create and the memory type of staging buffers (SpecStaging).        *)
(***************************************************************************)
RECURSIVE staging_loop(_, _, _)
\* the loop of pick_staging_memory_type from index i on
staging_loop(mts, i, best_mt) ==
    LET required_flags == BitOr(HBM_MEMORY_TYPE_MAPPABLE,
                                HBM_MEMORY_TYPE_COHERENT)
        preferred_flag == HBM_MEMORY_TYPE_CACHED
    IN  IF i > Len(mts) THEN best_mt
        ELSE IF BitAnd(mts[i], required_flags) # required_flags
        THEN staging_loop(mts, i + 1, best_mt)
        ELSE IF BitAnd(mts[i], preferred_flag) # 0 THEN mts[i]
        ELSE IF best_mt = 0 THEN staging_loop(mts, i + 1, mts[i])
        ELSE staging_loop(mts, i + 1, best_mt)

\* a plausible slip: the first type with the required flags is taken
pick_staging_memory_type_first_fit(mts, fail) ==
    IF fail \in {"staging", "mts_malloc"} THEN 0
    ELSE LET fits == {i \in DOMAIN mts : BitAnd(mts[i], 12) = 12}
         IN  IF fits = {} THEN 0
             ELSE mts[CHOOSE i \in fits : \A j \in fits : i <= j]

\* mts: the memory types the 1-byte staging bo enumerates; fail: the step
\* that fails, create_staging or the malloc of get_memory_types
pick_staging_memory_type(mts, fail) ==
    IF fail \in {"staging", "mts_malloc"} THEN 0
    ELSE staging_loop(mts, 1, 0)

CreateFailSites == {"none", "device_id", "device", "calloc", "staging", "mts_malloc"}

\* hbm: NULL or the new struct hbm; device: what became of the hbm_device
hbm_create(mts, fail) ==
    LET staging_mt == pick_staging_memory_type(mts, fail)
    IN  IF fail \in {"device_id", "device"}
        THEN [hbm |-> NULL, device |-> "none"]
        ELSE IF fail = "calloc" THEN [hbm |-> NULL, device |-> "destroyed"]
        ELSE IF staging_mt = 0 THEN [hbm |-> NULL, device |-> "destroyed"]
        ELSE [hbm |-> [staging_mt |-> staging_mt], device |-> "live"]

InitStaging ==
    /\ sIn \in [mts : MtLists(MaxMts), fail : CreateFailSites]
    /\ sOut = NoCall
    /\ WaitVarsIdle
    /\ BracketIdle
    /\ WideIdle
    /\ RaceIdle
    /\ PureIdle
    /\ LateIdle
    /\ backend = "none"
    /\ LifeIdle
    /\ OwnIdle

ApplyHbmCreate ==
    /\ sOut = NoCall
    /\ sOut' = [called |-> TRUE, ret |-> hbm_create(sIn.mts, sIn.fail)]
    /\ UNCHANGED <<sIn, oldVars, wideVars, raceVars, waitVars, bracketVars>>

NextStaging == ApplyHbmCreate

SpecStaging == InitStaging /\ [][NextStaging]_vars

(***************************************************************************)
(* wait_resource, one poll() call at a time (SpecWait, SpecWaitFair).      *)
(* poll() is called with timeout -1, so it blocks until the requested      *)
(* event or an error condition is ready, or fails with an errno; it never  *)
(* returns 0 here.  faulty says whether the descriptor may report an error *)
(* condition or poll() may fail for good.                                  *)
(***************************************************************************)
\* a plausible slip: an interrupted poll() ends the wait
poll_step_fails_on_eintr(result, events) ==
    IF result.ret > 0
    THEN IF result.revents \cap events # {} THEN "true" ELSE "false"
    ELSE IF result.ret = 0 \/ result.errno # "EAGAIN" THEN "false"
    ELSE "again"

\* lines 695-699: what one poll() result does to the loop
poll_step(result, events) ==
    IF result.ret > 0
    THEN IF result.revents \cap events # {} THEN "true" ELSE "false"
    ELSE IF result.ret = 0 \/ ~(result.errno \in {"EINTR", "EAGAIN"})
    THEN "false"
    ELSE "again"

WaitIdle ==
    [pc |-> "idle", fence |-> FALSE, map_flags |-> {}, events |-> {},
     timeout |-> 0, polls |-> 0, interrupts |-> 0, last |-> PollTimeout,
     ret |-> FALSE]

\* wait_resource is entered: without an implicit fence it returns true
WaitEnter(fence, map_flags) ==
    /\ kWait.pc = "idle"
    /\ \E w \in {wait_resource([implicit_fence_dmabuf |-> IF fence THEN 3 ELSE -1],
                               map_flags, <<PollTimeout>>)} :
           kWait' = IF ~w.polled
                    THEN [kWait EXCEPT !.pc = "done", !.ret = w.ret,
                                       !.map_flags = map_flags]
                    ELSE [kWait EXCEPT !.pc = "poll", !.fence = TRUE,
                                       !.map_flags = map_flags,
                                       !.events = w.events, !.timeout = -1]
    /\ UNCHANGED <<kFence, oldVars, wideVars, raceVars, stagingVars, bracketVars>>

\* the device signals the fence
FenceSignal ==
    /\ ~kFence.signalled
    /\ kFence' = [kFence EXCEPT !.signalled = TRUE]
    /\ UNCHANGED <<kWait, oldVars, wideVars, raceVars, stagingVars, bracketVars>>

\* poll() returns result and the loop of wait_resource acts on it
PollReturns(result) ==
    /\ kWait.pc = "poll"
    /\ \E s \in {poll_step(result, kWait.events)} :
           kWait' = [kWait EXCEPT
                        !.polls = @ + 1, !.last = result,
                        !.interrupts = IF s = "again" THEN @ + 1 ELSE @,
                        !.pc = IF s = "again" THEN "poll" ELSE "done",
                        !.ret = (s = "true")]
    /\ UNCHANGED <<kFence, oldVars, wideVars, raceVars, stagingVars, bracketVars>>

\* the requested event is ready
PollSignalled ==
    /\ kFence.signalled
    /\ PollReturns(PollReady(kWait.events))

\* a signal or a transient shortage interrupts poll()
PollInterrupted(errno) ==
    /\ kWait.interrupts < MaxInterrupts
    /\ PollReturns(PollError(errno))

\* the descriptor reports an error condition, alone or with the event
PollFaulty(with_event) ==
    /\ kFence.faulty
    /\ with_event => kFence.signalled
    /\ PollReturns(PollReady(IF with_event THEN kWait.events \cup {"POLLERR"}
                             ELSE {"POLLERR"}))

\* poll() fails with an errno that is not retried
PollFails(errno) ==
    /\ kFence.faulty
    /\ PollReturns(PollError(errno))

InitWait ==
    /\ kWait = WaitIdle
    /\ kFence \in [signalled : BOOLEAN, faulty : BOOLEAN]
    /\ BracketIdle
    /\ WideIdle
    /\ RaceIdle
    /\ StagingIdle
    /\ PureIdle
    /\ LateIdle
    /\ backend = "none"
    /\ LifeIdle
    /\ OwnIdle

NextWait ==
    \/ \E fence \in BOOLEAN, map_flags \in MapFlagSets \cup {{}} :
           WaitEnter(fence, map_flags)
    \/ FenceSignal
    \/ PollSignalled
    \/ \E errno \in {"EINTR", "EAGAIN"} : PollInterrupted(errno)
    \/ \E with_event \in BOOLEAN : PollFaulty(with_event)
    \/ \E errno \in {"EBADF", "ENOMEM"} : PollFails(errno)

SpecWait == InitWait /\ [][NextWait]_vars

\* poll() returns once the requested event is ready, and the thread in
\* wait_resource keeps running
SpecWaitFair == SpecWait /\ WF_vars(PollSignalled)

(***************************************************************************)
(* One mapping of a dma-buf bo at a time: map, any number of flushes,      *)
(* unmap, and again (SpecBracket).  bCalls is the history of the mmap,     *)
(* munmap and DMA_BUF_IOCTL_SYNC calls on the buffer.                      *)
(***************************************************************************)
BracketBo == [priv |-> [fds |-> 1], meta |-> drv_bo_from_format(4, 2, DRM_FORMAT_R8)]

Unmapped == [mapped |-> FALSE, map_flags |-> {}, maps |-> 0, flushes |-> 0,
             op |-> "none", ret |-> 0]

\* dmabuf_bo_map with a new vma
BracketMap(map_flags, mmap_ok) ==
    /\ ~bMap.mapped
    /\ bMap.maps < MaxMaps
    /\ \E r \in {dmabuf_bo_map(BracketBo, map_flags, [mmap_ok |-> mmap_ok])} :
        /\ bMap' = [mapped |-> r.ret = "ptr", map_flags |-> map_flags,
                    maps |-> bMap.maps + 1, flushes |-> 0, op |-> "map",
                    ret |-> IF r.ret = "ptr" THEN 0 ELSE -1]
        /\ bCalls' = bCalls \o r.calls
    /\ UNCHANGED <<oldVars, wideVars, raceVars, stagingVars, waitVars>>

\* dmabuf_bo_flush of the mapping
BracketFlush ==
    /\ bMap.mapped
    /\ bMap.flushes < MaxFlushes
    /\ \E r \in {dmabuf_bo_flush(BracketBo)} :
        /\ bMap' = [bMap EXCEPT !.flushes = @ + 1, !.op = "flush",
                                !.ret = r.ret]
        /\ bCalls' = bCalls \o r.calls
    /\ UNCHANGED <<oldVars, wideVars, raceVars, stagingVars, waitVars>>

\* dmabuf_bo_unmap of the mapping
BracketUnmap ==
    /\ bMap.mapped
    /\ \E r \in {dmabuf_bo_unmap(BracketBo, [munmap_ret |-> 0])} :
        /\ bMap' = [bMap EXCEPT !.mapped = FALSE, !.op = "unmap",
                                !.ret = r.ret]
        /\ bCalls' = bCalls \o r.calls
    /\ UNCHANGED <<oldVars, wideVars, raceVars, stagingVars, waitVars>>

InitBracket ==
    /\ bMap = Unmapped
    /\ bCalls = <<>>
    /\ WideIdle
    /\ RaceIdle
    /\ StagingIdle
    /\ WaitVarsIdle
    /\ PureIdle
    /\ LateIdle
    /\ backend = "none"
    /\ LifeIdle
    /\ OwnIdle

NextBracket ==
    \/ \E map_flags \in MapFlagSets, mmap_ok \in BOOLEAN :
           BracketMap(map_flags, mmap_ok)
    \/ BracketFlush
    \/ BracketUnmap

SpecBracket == InitBracket /\ [][NextBracket]_vars

(***************************************************************************)
(* Claims about the life of a buffer object (Spec).                        *)
(***************************************************************************)
RecognizedUse ==
    BO_USE_SW_MASK
    \cup {"SCANOUT", "CAMERA_READ", "CAMERA_WRITE", "HW_VIDEO_DECODER",
          "HW_VIDEO_ENCODER", "CURSOR", "TEXTURE", "RENDERING"}

Accepted(call) ==
    /\ is_format_supported(call.format)
    /\ call.use_flags \ RecognizedUse = {}
    /\ ~call.test_only

Refused(call) ==
    \/ ~is_format_supported(call.format)
    \/ call.use_flags \ RecognizedUse # {}

\* C1: a step issues DMA_HEAP_IOCTL_ALLOC only in a dmabuf_bo_create2 whose
\* format is supported, whose use flags are all recognized and whose test_only
\* is false; a dmabuf_bo_create2 with an unsupported format or an unrecognized
\* use flag returns -EINVAL, issues no allocation and leaves bo->priv unset.
C1_AllocOnlyWhenAccepted ==
    [][/\ dAllocs' # dAllocs =>
            /\ dLast'.op = "create2" /\ dLast'.alloc # NULL
            /\ Accepted(dLast')
       /\ dLast'.op = "create2" /\ dLast'.alloc # NULL => Accepted(dLast')
       /\ dLast'.op = "create2" /\ Refused(dLast') =>
            /\ dLast'.ret = -EINVAL
            /\ dLast'.alloc = NULL
            /\ dAllocs' = dAllocs
            /\ dBo'.priv = NULL]_vars

\* an accepted request has allocated, and the next request, with an
\* unrecognized use flag, has been refused
C1_Witness ==
    /\ dAllocs = 1
    /\ dLast.op = "create2"
    /\ is_format_supported(dLast.format)
    /\ dLast.use_flags \ RecognizedUse # {}
    /\ dLast.use_flags \cap RecognizedUse # {}
    /\ dLast.ret = -EINVAL

Mapped(vmas) == {v \in 1 .. MaxVma : vmas[v]}

\* C2: a map of a bo that is mapped fails, an unmap of a bo that is not mapped
\* is rejected, and no bo has two mappings at once, in both backends.
C2_AtMostOneMapping ==
    /\ hLast.op = "map" /\ hLast.busy => hLast.ret = "MAP_FAILED"
    /\ hLast.op = "unmap" /\ ~hLast.busy => hLast.rc # 0
    /\ Cardinality({v \in 1 .. MaxVma : hVma[v].live}) <= 1
    /\ dLast.op = "map" /\ dLast.busy => dLast.ptr = "MAP_FAILED"
    /\ dLast.op = "unmap" /\ ~dLast.busy => dLast.ret # 0
    /\ Cardinality(Mapped(dVma)) <= 1

\* C3: a dri_bo_map of a resource with an implicit fence returns a pointer
\* only if wait_resource polled the fence for the direction of the map flags
\* (POLLOUT with BO_MAP_WRITE, POLLIN without) and found it ready.
C3_PointerOnlyAfterReadiness ==
    hLast.op = "map" /\ hLast.fenced /\ hLast.ret = "ptr" =>
        /\ hLast.wait.polled
        /\ hLast.wait.ret
        /\ hLast.wait.events = IF "WRITE" \in hLast.flags
                               THEN {"POLLOUT"} ELSE {"POLLIN"}

\* C4: as long as no client has written through a mapping, the maps and unmaps
\* of a staged resource leave the real buffer as it was created.
C4_RoundTripKeepsRealBuffer ==
    hPriv = "res" /\ hRes.staging_size # 0 /\ ~hWritten =>
        hReal = Pristine(hRes.format)

\* C5: an unmap of a mapping runs its last step whatever came before:
\* dri_bo_unmap calls hbm_unmap, which leaves the vma without mapping and
\* without staging bo; dmabuf_bo_unmap issues DMA_BUF_SYNC_END and munmap.
C5_UnmapAlwaysEnds ==
    /\ hLast.op = "unmap" /\ hLast.busy => hLast.released
    /\ \A v \in 1 .. MaxVma : hVma[v].priv => hVma[v].live
    /\ dLast.op = "unmap" => dLast.sync = <<"END">> /\ dLast.munmap

\* the hbm_sync of an unmap has failed and hbm_unmap has run
C5_Witness ==
    /\ hLast.op = "unmap" /\ hLast.busy
    /\ hLast.synced /\ ~hLast.sync_ret
    /\ hLast.released
    /\ hRes.staging_size # 0
    /\ \A v \in 1 .. MaxVma : ~hVma[v].live

\* C6: a dri_bo_unmap whose hbm_sync failed returns non-zero.
C6_UnmapPropagatesSyncFailure ==
    hLast.op = "unmap" /\ hLast.synced /\ ~hLast.sync_ret => hLast.rc # 0

(***************************************************************************)
(* Claims about memory-type selection (SpecPick).                          *)
(***************************************************************************)
HasFlag(mt, flag) == BitAnd(mt, flag) # 0

\* the indices of the enumerated types that have all required flags and none
\* of the disallowed ones
AdmissibleIn(mts, modifier, use_flags) ==
    LET c == pick_constraints(modifier, use_flags)
    IN  {i \in 1 .. Len(mts) :
            /\ BitAnd(mts[i], c.required_flags) = c.required_flags
            /\ BitAnd(mts[i], c.disallowed_flags) = 0}

\* C7: pick_memory_type fails exactly when no enumerated memory type is
\* admissible (all required flags, no disallowed flag); with an admissible type
\* it succeeds and returns one of them, whatever the preferred flag is.
C7_PickSucceedsIffAdmissible ==
    pOut.called /\ pOut.mts_ok =>
        LET adm == AdmissibleIn(pIn.mts, pOut.modifier, pIn.use_flags)
        IN  /\ pOut.ret.ok <=> adm # {}
            /\ pOut.ret.ok => \E i \in adm : pIn.mts[i] = pOut.ret.mt

\* C8: a memory type returned by a successful pick_memory_type is LOCAL and not
\* CACHED when the usage contains SCANOUT or CURSOR, and is MAPPABLE when CPU
\* usage was resolved to direct mapping (no staging).
C8_PickedTypeRespectsFlags ==
    pOut.called /\ pOut.ret.ok =>
        /\ pIn.use_flags \cap {"SCANOUT", "CURSOR"} # {} =>
               /\ HasFlag(pOut.ret.mt, HBM_MEMORY_TYPE_LOCAL)
               /\ ~HasFlag(pOut.ret.mt, HBM_MEMORY_TYPE_CACHED)
        /\ pIn.use_flags \cap BO_USE_SW_MASK # {} /\ ~pOut.ret.use_staging =>
               /\ pOut.modifier = DRM_FORMAT_MOD_LINEAR
               /\ HasFlag(pOut.ret.mt, HBM_MEMORY_TYPE_MAPPABLE)
        /\ \E i \in 1 .. Len(pIn.mts) : pIn.mts[i] = pOut.ret.mt

\* C8 witness: overlay usage, the first enumerated type is LOCAL but CACHED and
\* is passed over for the second one
C8_Witness ==
    /\ pOut.called /\ pOut.ret.ok
    /\ "SCANOUT" \in pIn.use_flags
    /\ Len(pIn.mts) = 2
    /\ HasFlag(pIn.mts[1], HBM_MEMORY_TYPE_LOCAL)
    /\ HasFlag(pIn.mts[1], HBM_MEMORY_TYPE_CACHED)
    /\ pOut.ret.mt = pIn.mts[2]
    /\ pIn.mts[2] # pIn.mts[1]

(***************************************************************************)
(* Claims about hbm_allocate (SpecAlloc).                                  *)
(***************************************************************************)
\* the request leaves the modifier to init_description's preference
ModifierFree(r) ==
    r.mods = <<>> /\ r.use_flags \cap {"LINEAR", "CURSOR"} = {}

Often(u) == u \cap {"SW_READ_OFTEN", "SW_WRITE_OFTEN"} # {}
Reads(u) == u \cap {"SW_READ_OFTEN", "SW_READ_RARELY"} # {}
Overlay(u) == u \cap {"SCANOUT", "CURSOR"} # {}
Gpu(u) == u \cap {"RENDERING", "TEXTURE", "GPU_DATA_BUFFER"} # {}
Cpu(u) == u \cap BO_USE_SW_MASK # {}

\* a call of hbm_allocate with CPU usage that got as far as the description
CpuAllocation == aOut.called /\ aOut.ret.err # "abort" /\ Cpu(aReq.use_flags)

\* what init_description decided: direct mapping iff it asked for LINEAR
DescDirect == aOut.ret.desc.asked_linear

\* a successful allocation of a linear bo, where pick_memory_type decides
PickDecided ==
    /\ aOut.ret.res # NULL
    /\ aOut.ret.layout_modifier = DRM_FORMAT_MOD_LINEAR

PickDirect == aOut.ret.res.staging_size = 0

\* C9 as stated: direct mapping for any CPU 'often' usage with SCANOUT/CURSOR,
\* direct mapping for CPU usage with neither overlay nor GPU usage, staging for
\* GPU usage with only 'rarely' CPU flags, in init_description and in
\* pick_memory_type alike.
C9_PreferenceAsStated ==
    CpuAllocation =>
        LET u == aReq.use_flags
        IN  /\ ModifierFree(aReq) =>
                /\ Overlay(u) /\ Often(u) => DescDirect
                /\ ~Overlay(u) /\ ~Gpu(u) => DescDirect
                /\ Gpu(u) /\ ~Often(u) => ~DescDirect
            /\ PickDecided =>
                /\ Overlay(u) /\ Often(u) => PickDirect
                /\ ~Overlay(u) /\ ~Gpu(u) => PickDirect
                /\ Gpu(u) /\ ~Often(u) => ~PickDirect

\* C9 amended: with SCANOUT/CURSOR usage a CPU 'often' usage gets direct
\* mapping only when no CPU read flag is set, and staging whenever one is set;
\* the other two rules and the agreement of the two call sites are as stated.
C9_PreferenceAmended ==
    CpuAllocation =>
        LET u == aReq.use_flags
        IN  /\ ModifierFree(aReq) =>
                /\ Overlay(u) /\ Often(u) /\ ~Reads(u) => DescDirect
                /\ Overlay(u) /\ Reads(u) => ~DescDirect
                /\ ~Overlay(u) /\ ~Gpu(u) => DescDirect
                /\ Gpu(u) /\ ~Often(u) => ~DescDirect
            /\ PickDecided =>
                /\ Overlay(u) /\ Often(u) /\ ~Reads(u) => PickDirect
                /\ Overlay(u) /\ Reads(u) => ~PickDirect
                /\ ~Overlay(u) /\ ~Gpu(u) => PickDirect
                /\ Gpu(u) /\ ~Often(u) => ~PickDirect

\* C9 witness: scanout with frequent CPU reads is allocated linear and staged
C9_Witness ==
    /\ CpuAllocation
    /\ aReq.use_flags = {"SCANOUT", "SW_READ_OFTEN"}
    /\ ModifierFree(aReq)
    /\ ~DescDirect
    /\ PickDecided
    /\ ~PickDirect

\* C10: a request with CPU-write-often plus GPU-texture usage and no modifier
\* is non-staged only if the bo is linear and bound to a MAPPABLE type; in
\* every other case the allocation still succeeds, staged.  Stated for devices
\* that enumerate a LOCAL type (which the staged route accepts) and for calls
\* in which no external step fails.
C10_StagingFallback ==
    /\ aOut.called
    /\ aReq.use_flags = {"SW_WRITE_OFTEN", "TEXTURE"}
    /\ aReq.mods = <<>>
    /\ aOut.fail = "none"
    /\ \E i \in 1 .. Len(aReq.mts) : HasFlag(aReq.mts[i], HBM_MEMORY_TYPE_LOCAL)
    => /\ aOut.ret.res # NULL
       /\ aOut.ret.res.staging_size = 0 =>
              /\ aOut.ret.layout_modifier = DRM_FORMAT_MOD_LINEAR
              /\ HasFlag(aOut.ret.res.mt, HBM_MEMORY_TYPE_MAPPABLE)
       /\ aOut.ret.layout_modifier # DRM_FORMAT_MOD_LINEAR =>
              aOut.ret.res.staging_size > 0

\* a LOCAL memory type that device-only usage u can be bound to
DeviceLocalOk(mt, u) ==
    /\ HasFlag(mt, HBM_MEMORY_TYPE_LOCAL)
    /\ Overlay(u) => ~HasFlag(mt, HBM_MEMORY_TYPE_CACHED)

Blob(u) == u \cap {"GPU_DATA_BUFFER", "SENSOR_DIRECT_DATA"} # {}

\* C13: the description's format is DRM_FORMAT_INVALID exactly when the usage
\* has GPU_DATA_BUFFER or SENSOR_DIRECT_DATA, and the extent is then a buffer
\* of width bytes; for any other usage the format is the requested one and the
\* extent is the image of width x height.
C13_BlobDescription ==
    aOut.called /\ aOut.ret.err # "abort" =>
        LET u == aReq.use_flags
            d == aOut.ret.desc
            e == aOut.ret.extent
        IN  /\ d.format = DRM_FORMAT_INVALID <=> Blob(u)
            /\ Blob(u) => e.kind = "buffer" /\ e.size = aReq.shape[2]
            /\ ~Blob(u) =>
                   /\ d.format = aReq.shape[1]
                   /\ e.kind = "image"
                   /\ e.width = aReq.shape[2] /\ e.height = aReq.shape[3]

\* a raw-sensor request for an R8 buffer has been described as a blob
C13_Witness ==
    /\ aOut.called /\ aOut.ret.err # "abort"
    /\ "SENSOR_DIRECT_DATA" \in aReq.use_flags
    /\ aReq.shape[1] = DRM_FORMAT_R8
    /\ aOut.ret.desc.format = DRM_FORMAT_INVALID
    /\ aOut.ret.extent.kind = "buffer"

(***************************************************************************)
(* Claims about the ownership of objects and descriptors (SpecOwn).        *)
(***************************************************************************)
\* the descriptors the engine obtained itself
EngineFds == 2 .. Len(oFds)

\* an engine descriptor is accounted for when the provider owns it or the
\* engine closed it exactly once
Settled(i) ==
    IF oFds[i].bound THEN oFds[i].closes = 0 ELSE oFds[i].closes = 1

CreateOps == {"create", "import"} \cup DriEntries

\* C14: when an allocate or import call fails at any step, every object
\* created during the call (hbm bo, hbm_resource, DRI image, GEM handle,
\* duplicated or exported descriptors) has been released exactly once when
\* the call returns.
C14_FailureReleasesAll ==
    oLast.op \in CreateOps /\ oLast.step # "none" =>
        /\ \A k \in ObjKinds : oObjs[k].released = oObjs[k].made
        /\ \A i \in EngineFds : Settled(i)

\* C15: hbm_reimport_to_driver may be called any number of times: the
\* resource owns at most one implicit-fence descriptor at any time, and after
\* hbm_free every descriptor the engine duplicated or exported has been closed
\* exactly once.
C15_ReimportKeepsOneFence ==
    backend = "hbm" =>
        /\ Cardinality({i \in EngineFds :
                            ~oFds[i].bound /\ oFds[i].state = "open"}) <= 1
        /\ \A i \in EngineFds : oFds[i].closes <= 1
        /\ oBo.priv = "freed" => \A i \in EngineFds : Settled(i)

\* C16: destroying a buffer object releases its backing bo, its owned
\* implicit-fence descriptor and any staging buffer still alive for it, in
\* every state in which destroy is called, idle or mapped through staging.
C16_DestroyReleasesAll ==
    oLast.op = "release" =>
        /\ \A k \in {"bo", "res", "staging", "image"} :
               oObjs[k].released = oObjs[k].made
        /\ oBo.res # NULL /\ oBo.res.implicit_fence_dmabuf >= 0 =>
               Settled(oBo.res.implicit_fence_dmabuf - ImportFd + 1)

\* C17: hbm_import and hbm_reimport_to_driver never close and never keep the
\* caller's import descriptor: only duplicates are bound to the provider or
\* kept as the implicit fence, and a descriptor handed to hbm_bo_bind_memory
\* is never closed by the engine afterwards, also when the bind fails.
C17_CallerFdsUntouched ==
    /\ oFds[1] = CallerFds[1]
    /\ oBo.res # NULL => oBo.res.implicit_fence_dmabuf # ImportFd
    /\ \A i \in EngineFds : oFds[i].bound => oFds[i].closes = 0

\* an import whose bind failed after the duplicate was handed over, or an
\* import for CPU usage that kept a duplicate as the implicit fence
C17_Witness ==
    /\ oLast.op = "import"
    /\ \E i \in EngineFds : oFds[i].bound /\ oFds[i].from = "dup"
    /\ \/ oLast.step = "bind"
       \/ oBo.res # NULL /\ oBo.res.implicit_fence_dmabuf > ImportFd

\* C18: in every layout produced by allocate or import, sizes[i] is
\* offsets[i+1] - offsets[i], the last size is total_size - offsets[last], and
\* the plane sizes add up to at most total_size without unsigned wrap-around
\* (a wrapped uint32_t shows as a negative number here).
C18_LayoutSizes ==
    oBo.priv \in {"res", "image"} =>
        LET m == oBo.meta
            n == m.num_planes
        IN  /\ \A i \in 1 .. n :
                   /\ m.sizes[i] = (IF i < n THEN m.offsets[i + 1]
                                    ELSE m.total_size) - m.offsets[i]
                   /\ m.sizes[i] >= 0
            /\ SumTo(m.sizes, n) <= m.total_size


(***************************************************************************)
(* Claims about the dma-buf backend's pure steps (SpecResolve, SpecCreate2). *)
(***************************************************************************)
Camera(u) == u \cap {"CAMERA_READ", "CAMERA_WRITE"} # {}

\* C12: the first resolution maps the implementation-defined format to NV12
\* with camera usage and to XBGR8888 without, flexible YCbCr 4:2:0 to NV12,
\* BGR565 to RGB565 and any other format to itself; it returns the usage
\* flags as given; a format it substitutes is a supported one; and a second
\* resolution returns what the first returned.
C12_ResolveAsStated ==
    /\ rOut.called /\ rOut.calls = 1 =>
        /\ rOut.ret.use_flags = rIn.use_flags
        /\ rIn.format = "FLEX_IMPLEMENTATION_DEFINED" =>
               rOut.ret.format = IF Camera(rIn.use_flags) THEN "NV12"
                                 ELSE "XBGR8888"
        /\ rIn.format = "FLEX_YCbCr_420_888" => rOut.ret.format = "NV12"
        /\ rIn.format = "BGR565" => rOut.ret.format = "RGB565"
        /\ rIn.format \notin {"FLEX_IMPLEMENTATION_DEFINED",
                              "FLEX_YCbCr_420_888", "BGR565"} =>
               rOut.ret.format = rIn.format
        /\ rOut.ret.format # rIn.format =>
               is_format_supported(rOut.ret.format)
    /\ rOut.called /\ rOut.calls = 2 => rOut.ret = rOut.first

\* the implementation-defined format without camera usage, resolved twice
C12_Witness ==
    /\ rOut.called /\ rOut.calls = 2
    /\ rIn.format = "FLEX_IMPLEMENTATION_DEFINED"
    /\ ~Camera(rIn.use_flags)
    /\ rOut.ret.format = "XBGR8888"

\* the length the camera rule asks for: ALIGN(width, 32) * ALIGN(height, 16)
\* * 3 / 2
CameraSize(shape) == (ALIGN(shape[1], 32) * ALIGN(shape[2], 16) * 3) \div 2

Codec(u) == u \cap BO_USE_HW_VIDEO # {}

\* C19: for a request with camera usage and height > 1, dmabuf_bo_create2
\* uses a row stride that is a multiple of 32, allocates from the CMA heap and
\* asks the heap for at least ALIGN(width,32)*ALIGN(height,16)*3/2 bytes.
C19_CameraRequest ==
    /\ cOut.called /\ cOut.ret.alloc # NULL
    /\ Camera(cIn.use_flags) /\ cIn.shape[2] > 1
    => /\ cOut.ret.bo.meta.strides[1] % 32 = 0
       /\ cOut.ret.alloc.heap = "linux,cma"
       /\ cOut.ret.alloc.len >= CameraSize(cIn.shape)

\* C20: with both camera and video-codec usage on one request, the size
\* alignment used for the heap request is the larger of the two,
\* max(4096, ALIGN(width,32)*ALIGN(height,16)*3/2).
C20_LargerAlignmentWins ==
    /\ cOut.called /\ cOut.ret.alloc # NULL
    /\ Camera(cIn.use_flags) /\ Codec(cIn.use_flags) /\ cIn.shape[2] > 1
    => cOut.ret.alloc.size_align =
           IF CameraSize(cIn.shape) > 4096 THEN CameraSize(cIn.shape) ELSE 4096

(***************************************************************************)
(* Claims about sizes that need more than 32 bits (SpecWide).              *)
(***************************************************************************)
\* C21: a request whose stride or camera frame size
\* ALIGN(width,32)*ALIGN(height,16)*3 needs more than 32 bits is rejected by
\* dmabuf_bo_create2 with an error instead of being reduced modulo 2^32,
\* and the staging size create_resource accumulates is never reduced.
C21_OverflowRejected ==
    wOut # NoCall
    => /\ wOut.op = "dmabuf_bo_create2" /\ wOut.out.ret >= 0
          => wOut.out.sizes.stride_fits /\ wOut.out.sizes.frame_fits
       /\ wOut.op = "create_resource" => wOut.out.fits

(***************************************************************************)
(* Claims about concurrent calls on one driver (SpecRace).                 *)
(***************************************************************************)
\* a context no pointer leads to any more: drv->priv holds another one and
\* no call in progress holds it
Unreachable(c) ==
    /\ tPriv # c
    /\ \A t \in Threads : tProc[t].pc # "done" => tProc[t].ctx # c

\* C22: two concurrent dmabuf_bo_create2 calls on different bos of the same
\* driver do not interfere: the driver context is constructed at most once,
\* both calls use the same context, and no context with its heap
\* descriptors is overwritten in drv->priv and left unreachable.
C22_NoInterference ==
    /\ Len(tCtxs) <= 1
    /\ \A s, t \in Threads :
           tProc[s].ctx # 0 /\ tProc[t].ctx # 0 => tProc[s].ctx = tProc[t].ctx
    /\ \A c \in 1 .. Len(tCtxs) : ~Unreachable(c)

(***************************************************************************)
(* Further claims about dmabuf_bo_create2 (SpecCreate2).                   *)
(***************************************************************************)
\* C23: after a successful dmabuf_bo_create2 the total_size in the metadata
\* of the bo equals the byte length requested from the heap, is at least
\* the sum of the plane sizes and is a multiple of 4096.
C23_TotalSizeIsAllocation ==
    cOut.called /\ cOut.ret.ret = 0 /\ cOut.ret.alloc # NULL
    => LET meta == cOut.ret.bo.meta
       IN  /\ meta.total_size = cOut.ret.alloc.len
           /\ meta.total_size >= SumTo(meta.sizes, meta.num_planes)
           /\ meta.total_size % 4096 = 0

(***************************************************************************)
(* Further claims about the objects of one bo (SpecOwn).                   *)
(***************************************************************************)
\* C24: when dri_bo_create, dri_bo_create_with_modifiers or dri_bo_import
\* returns an error, bo->priv does not refer to an object destroyed during
\* the call and bo->meta is as it was before the call.
C24_FailedCreateKeepsBo ==
    [][oBo.priv = "null" /\ oLast'.op \in CreateOps /\ oLast'.ret < 0
       => oBo'.priv # "freed" /\ oBo'.meta = oBo.meta]_vars

(***************************************************************************)
(* Further claims about the life of a buffer object (Spec).                *)
(***************************************************************************)
Staged == hRes # NULL /\ hRes.staging_size # 0

\* C25: with staging active, dri_bo_map copies the real buffer to the
\* staging buffer before it returns the pointer if and only if the map flags
\* include BO_MAP_READ, dri_bo_unmap copies the staging buffer to the real
\* buffer before the staging buffer is destroyed if and only if the flags of
\* the mapping include BO_MAP_WRITE, and neither makes a copy in the
\* opposite direction.
C25_CopyFollowsFlags ==
    /\ hLast.op = "map" /\ hLast.ret = "ptr" /\ Staged
       => /\ hLast.copy = "to_staging" <=> "READ" \in hLast.flags
          /\ hLast.copy # "to_real"
    /\ hLast.op = "unmap" /\ hLast.busy /\ hLast.released /\ Staged
       => /\ hLast.copy = "to_real" <=> "WRITE" \in hLast.flags
          /\ hLast.copy # "to_staging"

\* staging bos created and not destroyed yet
LiveStagings == oObjs["staging"].made - oObjs["staging"].released

\* mappings made through a staging bo and not unmapped yet
ActiveStagedMappings == IF oBo.vma.live /\ oBo.vma.priv THEN 1 ELSE 0

\* C26: after any sequence of hbm_map and hbm_unmap calls the number of live
\* staging bos equals the number of active staged mappings: a successful
\* hbm_map leaves one more of each, hbm_unmap one fewer, and an hbm_map that
\* fails at create, bind or map leaves none behind.
C26_OneStagingPerMapping ==
    backend = "hbm" => LiveStagings = ActiveStagedMappings

C26_Witness ==
    /\ backend = "hbm" /\ oLast.op = "map" /\ oLast.ret = 0
    /\ oBo.res.staging_size # 0
    /\ oObjs["staging"].made = 2 /\ oObjs["staging"].released = 1

(***************************************************************************)
(* Claims about the staging layout (SpecWide).                             *)
(***************************************************************************)
\* C27: when staging is selected, create_resource lays the staging buffer
\* out linearly and tightly from the format alone: staging_offsets[0] = 0,
\* staging_offsets[p+1] = staging_offsets[p] + size of plane p, staging_size
\* is the sum of the plane sizes, and staging_size is not zero, so that
\* every later map goes through the staging path.
C27_StagingLayout ==
    wOut # NoCall /\ wOut.op = "create_resource"
    => LET st == wOut.out
           n == Len(st.offsets)
       IN  /\ st.offsets[1] = <<0, 0>>
           /\ \A p \in 1 .. n - 1 :
                  st.offsets[p + 1] = Add32(st.offsets[p], st.sizes[p])
           /\ st.offset = Add32(st.offsets[n], st.sizes[n])
           /\ st.fits
           /\ st.offset # <<0, 0>>

(***************************************************************************)
(* Claims about hbm_create (SpecStaging).                                  *)
(***************************************************************************)
Required(mt) ==
    /\ BitAnd(mt, HBM_MEMORY_TYPE_MAPPABLE) # 0
    /\ BitAnd(mt, HBM_MEMORY_TYPE_COHERENT) # 0

Cached(mt) == BitAnd(mt, HBM_MEMORY_TYPE_CACHED) # 0

\* the first memory type of the list that satisfies P
FirstWith(mts, P(_)) ==
    mts[CHOOSE i \in DOMAIN mts :
            P(mts[i]) /\ \A j \in DOMAIN mts : P(mts[j]) => i <= j]

RequiredAndCached(mt) == Required(mt) /\ Cached(mt)

\* C28: the memory type hbm_create stores in hbm->staging_mt has MAPPABLE
\* and COHERENT; it is a CACHED one when a type with the required flags and
\* CACHED is enumerated, otherwise the first type with the required flags;
\* hbm_create returns NULL, with the device destroyed, when no enumerated
\* type has both required flags.
C28_StagingMemoryType ==
    sOut # NoCall
    => LET mts == sIn.mts
           hbm == sOut.ret.hbm
       IN  /\ hbm # NULL
              => /\ Required(hbm.staging_mt)
                 /\ IF \E i \in DOMAIN mts : RequiredAndCached(mts[i])
                    THEN hbm.staging_mt = FirstWith(mts, RequiredAndCached)
                    ELSE hbm.staging_mt = FirstWith(mts, Required)
           /\ (\A i \in DOMAIN mts : ~Required(mts[i]))
              => hbm = NULL /\ sOut.ret.device # "live"
           /\ sIn.fail = "none" /\ (\E i \in DOMAIN mts : Required(mts[i]))
              => hbm # NULL

\* a type with the required flags but not CACHED is enumerated before one
\* that is CACHED too, and the later one is chosen
C28_Witness ==
    /\ sOut # NoCall /\ sOut.ret.hbm # NULL
    /\ Len(sIn.mts) = 2
    /\ Required(sIn.mts[1]) /\ ~Cached(sIn.mts[1])
    /\ sOut.ret.hbm.staging_mt = sIn.mts[2]

(***************************************************************************)
(* Claims about wait_resource (SpecWaitFair).                              *)
(***************************************************************************)
WaitRetried == kWait.last \in PollRetry

\* the last poll() failed for good, or reported events without the one asked
WaitRefused ==
    \/ kWait.last.ret < 0 /\ ~WaitRetried
    \/ kWait.last.ret > 0 /\ kWait.last.revents \cap kWait.events = {}

\* what holds of wait_resource in every state
WaitSafety ==
    /\ kWait.pc = "poll" => kWait.timeout = -1
    /\ kWait.polls > 0 /\ WaitRetried => kWait.pc = "poll"
    /\ kWait.pc = "done" /\ ~kWait.ret => kWait.polls > 0 /\ WaitRefused
    /\ kWait.pc = "done" /\ ~kWait.fence => kWait.ret /\ kWait.polls = 0

\* C29: wait_resource polls with an infinite timeout and polls again after
\* EINTR or EAGAIN; it returns false only on a poll error that is not
\* retried or when the returned events lack the requested one; without an
\* implicit fence it returns true at once; and when the fence is signalled
\* and the interruptions are finite it terminates with true.
C29_WaitResource ==
    /\ []WaitSafety
    /\ (kWait.pc = "poll" /\ kFence.signalled /\ ~kFence.faulty)
           ~> (kWait.pc = "done" /\ kWait.ret)

\* the wait was interrupted twice and then ended with true
C29_Witness ==
    /\ kWait.pc = "done" /\ kWait.ret
    /\ kWait.interrupts = 2 /\ kWait.polls = 3

(***************************************************************************)
(* Claims about the CPU-access bracket of the dma-buf backend              *)
(* (SpecBracket).                                                          *)
(***************************************************************************)
IsSync(c) == c \in {"START", "END"}

\* the DMA_BUF_IOCTL_SYNC calls of the history, in order
SyncCalls == SelectSeq(bCalls, IsSync)

InBracket == Len(SyncCalls) > 0 /\ SyncCalls[Len(SyncCalls)] = "START"

\* C30: along map, flush*, unmap the DMA_BUF_SYNC_START and
\* DMA_BUF_SYNC_END calls alternate strictly, starting with START: map
\* issues START only after a successful mmap, flush issues END then START,
\* unmap issues END before munmap; the buffer is inside the bracket exactly
\* while it is mapped, and a failed mmap issues no START.
C30_BracketBalanced ==
    /\ \A i \in 1 .. Len(SyncCalls) :
           SyncCalls[i] = IF i % 2 = 1 THEN "START" ELSE "END"
    /\ InBracket <=> bMap.mapped
    /\ \A i \in 1 .. Len(bCalls) :
           /\ bCalls[i] = "mmap"
              => i < Len(bCalls) /\ bCalls[i + 1] = "START"
           /\ bCalls[i] = "munmap" => i > 1 /\ bCalls[i - 1] = "END"
           /\ bCalls[i] = "START"
              => i > 1 /\ bCalls[i - 1] \in {"mmap", "END"}
           /\ bCalls[i] = "mmap_failed"
              => i = Len(bCalls) \/ bCalls[i + 1] \in {"mmap", "mmap_failed"}

\* a failed map, then a mapping flushed twice and unmapped
C30_Witness ==
    /\ bMap.op = "unmap" /\ bMap.flushes = 2
    /\ \E i \in 1 .. Len(bCalls) : bCalls[i] = "mmap_failed"

\* C31: when a staged buffer has more than one plane, the sync at map (for
\* read) and at unmap (for write) transfers every plane: after a successful
\* read sync the staging buffer of the new mapping equals the real buffer on
\* all planes, and after a successful write sync at unmap the real buffer
\* equals the staging contents of the released mapping on all planes.
C31_AllPlanesSynced ==
    [][\A v \in 1 .. MaxVma :
        /\ (/\ Staged /\ hLast'.sync_ret
            /\ hLast'.op = "map" /\ hLast'.copy = "to_staging"
            /\ ~hVma[v].live /\ hVma'[v].live)
           => hVma'[v].data = hReal
        /\ (/\ Staged /\ hLast'.sync_ret
            /\ hLast'.op = "unmap" /\ hLast'.copy = "to_real"
            /\ hVma[v].live /\ ~hVma'[v].live)
           => hReal' = hVma[v].data]_vars

(***************************************************************************)
(* The heap of an allocation (SpecCreate2).                                *)
(***************************************************************************)
ForceCma(u) == u \cap ({"SCANOUT"} \cup BO_USE_CAMERA \cup BO_USE_HW_VIDEO) # {}

\* the request passes every test ahead of the allocation
Create2Accepted ==
    /\ is_format_supported(cIn.format)
    /\ cIn.use_flags \subseteq
           BO_USE_SW_MASK \cup {"SCANOUT"} \cup BO_USE_CAMERA
               \cup BO_USE_HW_VIDEO \cup BO_USE_ANY_HEAP
    /\ ~cOut.test_only

NewFd(owner) == [owner |-> owner, open |-> TRUE, closes |-> 0]

CloseFdOf(fds, fd) ==
    IF fd = -1 THEN fds
    ELSE [fds EXCEPT ![fd] = [@ EXCEPT !.open = FALSE, !.closes = @ + 1]]

\* priv->fds[plane] = UniqueFd(dup(src[plane])) for the planes left;
\* src_ok: which of the source descriptors are valid
RECURSIVE dup_planes(_, _, _, _)
dup_planes(fds, priv, src_ok, n) ==
    IF Len(priv) = n THEN [fds |-> fds, priv |-> priv]
    ELSE LET plane == Len(priv) + 1
         IN  IF src_ok[plane]
             THEN dup_planes(Append(fds, NewFd("bo")),
                             Append(priv, Len(fds) + 1), src_ok, n)
             ELSE dup_planes(fds, Append(priv, -1), src_ok, n)

RECURSIVE close_planes(_, _, _)
close_planes(fds, priv, k) ==
    IF k = 0 THEN fds
    ELSE close_planes(CloseFdOf(fds, priv[k]), priv, k - 1)

\* the descriptor part of dmabuf_bo_create2, from the heap ioctl on
dmabuf_bo_create2_fds(bo, fds, format, alloc_errno) ==
    LET n == drv_num_planes_from_format(format)
        buf_fd == Len(fds) + 1
        d == dup_planes(Append(fds, NewFd("buf_fd")), <<>>,
                        [p \in 1 .. n |-> TRUE], n)
    IN  IF alloc_errno # 0
        THEN [ret |-> -alloc_errno, fds |-> fds,
              bo |-> [bo EXCEPT !.num_planes = n]]
        ELSE [ret |-> 0, fds |-> CloseFdOf(d.fds, buf_fd),
              bo |-> [priv |-> [fds |-> d.priv], num_planes |-> n]]

\* data_ok: which of data->fds[] are valid descriptors
dmabuf_bo_import_fds(bo, fds, data_ok) ==
    IF bo.priv # NULL
    THEN [ret |-> -EINVAL, fds |-> fds, bo |-> bo]
    ELSE LET d == dup_planes(fds, <<>>, data_ok, bo.num_planes)
         IN  [ret |-> 0, fds |-> d.fds,
              bo |-> [bo EXCEPT !.priv = [fds |-> d.priv]]]

dmabuf_bo_destroy_fds(bo, fds) ==
    IF bo.priv # NULL
    THEN [ret |-> 0, fds |-> close_planes(fds, bo.priv.fds,
                                       Len(bo.priv.fds)),
          bo |-> [bo EXCEPT !.priv = NULL]]
    ELSE [ret |-> 0, fds |-> fds, bo |-> bo]

dmabuf_bo_get_plane_fd(bo, fds, plane) ==
    IF bo.priv.fds[plane + 1] # -1
    THEN [ret |-> Len(fds) + 1, fds |-> Append(fds, NewFd("caller"))]
    ELSE [ret |-> -1, fds |-> fds]

FdFormats == {DRM_FORMAT_R8, "NV12"}

\* which of data->fds[0], data->fds[1] the caller has set to a descriptor
DataFds == [1 .. 2 -> BOOLEAN]

InitFds ==
    /\ fBo = [priv |-> NULL, num_planes |-> 0]
    /\ fFds = <<>>
    /\ fLast = [op |-> "none", ret |-> 0]
    /\ WideIdle /\ RaceIdle /\ StagingIdle /\ WaitVarsIdle /\ BracketIdle
    /\ PureIdle
    /\ backend = "none"
    /\ LifeIdle
    /\ OwnIdle

\* dmabuf_bo_create2 on a new bo, past the tests of the request
FdCreate2(format, alloc_errno) ==
    /\ fBo.priv = NULL
    /\ Len(fFds) + 3 <= MaxFdTable
    /\ \E r \in {dmabuf_bo_create2_fds(fBo, fFds, format, alloc_errno)} :
        /\ fBo' = r.bo
        /\ fFds' = r.fds
        /\ fLast' = [op |-> "create2", ret |-> r.ret]
    /\ UNCHANGED restVars

\* dmabuf_bo_import; the caller has filled in bo->meta for the format
FdImport(format, data_ok) ==
    /\ Len(fFds) + 2 <= MaxFdTable
    /\ \E n \in {IF fBo.priv = NULL THEN drv_num_planes_from_format(format)
                 ELSE fBo.num_planes} :
       \E r \in {dmabuf_bo_import_fds([fBo EXCEPT !.num_planes = n], fFds,
                                      data_ok)} :
        /\ fBo' = r.bo
        /\ fFds' = r.fds
        /\ fLast' = [op |-> "import", ret |-> r.ret]
    /\ UNCHANGED restVars

FdGetPlaneFd(plane) ==
    /\ fBo.priv # NULL
    /\ plane < fBo.num_planes
    /\ Len(fFds) + 1 <= MaxFdTable
    /\ \E r \in {dmabuf_bo_get_plane_fd(fBo, fFds, plane)} :
        /\ fFds' = r.fds
        /\ fLast' = [op |-> "get_plane_fd", ret |-> r.ret]
    /\ UNCHANGED <<fBo, restVars>>

\* dmabuf_bo_destroy, also of a bo that has no private data (any more)
FdDestroy ==
    /\ fLast.op # "none"
    /\ \E r \in {dmabuf_bo_destroy_fds(fBo, fFds)} :
        /\ fBo' = r.bo
        /\ fFds' = r.fds
        /\ fLast' = [op |-> "destroy", ret |-> r.ret]
    /\ UNCHANGED restVars

NextFds ==
    \/ \E format \in FdFormats, alloc_errno \in {0, ENOMEM} :
           FdCreate2(format, alloc_errno)
    \/ \E format \in FdFormats, data_ok \in DataFds : FdImport(format, data_ok)
    \/ \E plane \in 0 .. 1 : FdGetPlaneFd(plane)
    \/ FdDestroy

SpecFds == InitFds /\ [][NextFds]_vars

(***************************************************************************)
(* Claims about the descriptors of a dmabuf-heap bo (SpecFds).             *)
(***************************************************************************)
\* the open descriptors the bo owns
OwnedFds(bo, fds) ==
    IF bo.priv = NULL THEN {}
    ELSE {bo.priv.fds[p] : p \in 1 .. Len(bo.priv.fds)} \ {-1}

\* C33: after a successful dmabuf_bo_create2 or dmabuf_bo_import the bo
\* owns exactly num_planes open descriptors and the descriptor the heap
\* returned is closed; dmabuf_bo_get_plane_fd returns a new open descriptor
\* owned by the caller and leaves the descriptors of the bo as they are;
\* dmabuf_bo_import on a bo that has private data returns -EINVAL and
\* leaves the bo unchanged; dmabuf_bo_destroy closes every descriptor the bo
\* owns exactly once and changes nothing when the bo has no private data.
C33_DescriptorAccounting ==
    [][/\ fLast'.op \in {"create2", "import"} /\ fLast'.ret = 0
          => /\ Cardinality(OwnedFds(fBo', fFds')) = fBo'.num_planes
             /\ \A fd \in OwnedFds(fBo', fFds') :
                    fFds'[fd].open /\ fFds'[fd].owner = "bo"
             /\ \A fd \in 1 .. Len(fFds') :
                    fFds'[fd].owner = "buf_fd"
                    => ~fFds'[fd].open /\ fFds'[fd].closes = 1
       /\ fLast'.op = "get_plane_fd"
          => /\ fLast'.ret = Len(fFds') /\ Len(fFds') = Len(fFds) + 1
             /\ fFds'[fLast'.ret].open /\ fFds'[fLast'.ret].owner = "caller"
             /\ fBo' = fBo
             /\ \A fd \in 1 .. Len(fFds) : fFds'[fd] = fFds[fd]
       /\ fLast'.op = "import" /\ fBo.priv # NULL
          => fLast'.ret = -EINVAL /\ fBo' = fBo /\ fFds' = fFds
       /\ fLast'.op = "destroy"
          => /\ fLast'.ret = 0 /\ fBo'.priv = NULL
             /\ \A fd \in OwnedFds(fBo, fFds) :
                    ~fFds'[fd].open /\ fFds'[fd].closes = 1
             /\ \A fd \in (1 .. Len(fFds)) \ OwnedFds(fBo, fFds) :
                    fFds'[fd] = fFds[fd]
             /\ fBo.priv = NULL => fFds' = fFds /\ fBo' = fBo]_vars

(***************************************************************************)
(* The asserts on the way of a request (SpecAlloc).                        *)
(***************************************************************************)
\* C34: no assert fails for any format, dimensions and usage flags that
\* reach hbm_allocate: in init_description use_gpu(use_flags) agrees with
\* usage != 0 and the format is R8 whenever the usage is a blob usage, in
\* init_extent the height is 1 whenever the format has become
\* DRM_FORMAT_INVALID, and prefer_map is consulted only for a usage with CPU
\* access.
C34_NoAssertFails ==
    aOut.called
    => /\ ~aOut.ret.desc.abort
       /\ ~aOut.ret.extent.abort
       /\ aOut.ret.err # "abort"
       /\ aOut.ret.desc.asked_linear => use_sw(aReq.use_flags)

(***************************************************************************)
(* import_into_minigbm of the DRI backend (SpecOwn).                       *)
(***************************************************************************)
\* objects of kind k made, and released, by the step
MadeNow(k) == oObjs'[k].made - oObjs[k].made
ReleasedNow(k) == oObjs'[k].released - oObjs[k].released

\* C35: in import_into_minigbm the prime descriptor is obtained on the paths
\* that pass the FD query and is closed exactly once on each of them (size
\* query failure, handle translation failure, plane query failure,
\* success); every per-plane image made by fromPlanar is destroyed; the GEM
\* handle is obtained past drmPrimeFDToHandle, closed on the failure path
\* taken after that and kept on success.
C35_ImportCleansUp ==
    [][backend = "dri" /\ oBo.priv = "null"
       => /\ MadeNow("prime_fd") =
                 IF oLast'.step \in {"lseek", "prime", "plane", "none"}
                 THEN 1 ELSE 0
          /\ ReleasedNow("prime_fd") = MadeNow("prime_fd")
          /\ ReleasedNow("plane_image") = MadeNow("plane_image")
          /\ MadeNow("handle") =
                 IF oLast'.step \in {"plane", "none"} THEN 1 ELSE 0
          /\ ReleasedNow("handle") = IF oLast'.step = "plane" THEN 1 ELSE 0
          /\ oLast'.step = "none" => oLast'.ret = 0 /\ oBo'.handle # 0]_vars

\* the stride query of a plane image has failed after the descriptor was
\* closed and the handle obtained
C35_Witness ==
    /\ backend = "dri"
    /\ oLast.step = "plane"
    /\ oObjs["plane_image"].made >= 1
    /\ oObjs["plane_image"].released = oObjs["plane_image"].made
    /\ oObjs["prime_fd"].released = 1
    /\ oObjs["handle"].released = 1

====
